---------------------------- MODULE Spec2Model ----------------------------
(***************************************************************************)
(* Shipping-methods DSL: the rule evaluation core.                         *)
(*                                                                         *)
(*   conditions.ts  evaluateConditions (geo / order / date)                *)
(*   pricing.ts     calculatePrice and the custom plugin registry          *)
(*   frontend.ts    getShippingMethodsForDisplay                           *)
(*   backend.ts     getShippingMethodById                                  *)
(*                                                                         *)
(* Conventions of the model                                                *)
(*   - an optional value (a `?:` field, `undefined`) is the empty tuple    *)
(*     Absent, a present one is the one-element tuple Some(x);             *)
(*   - order values, item counts, weights and thresholds are integers in   *)
(*     whole units; every price is an integer number of hundredths of a    *)
(*     unit, so that orderValue * (percentage / 100) is the exact integer  *)
(*     orderValue * percentage;                                            *)
(*   - an ISO-8601 date string is the pair of its wall-clock reading and   *)
(*     its UTC offset; parsing it yields the absolute instant;             *)
(*   - an identifier is a tuple of one-character strings, so that the      *)
(*     composite id and String.split are computed, not assumed.            *)
(***************************************************************************)
EXTENDS Integers, Sequences, FiniteSets, TLC

VARIABLES
    config,      \* ShippingConfig.methods of the call
    context,     \* EvaluationContext of the call
    conditions,  \* the Conditions block handed to evaluateConditions
    pricing,     \* the Pricing formula handed to calculatePrice
    customPlugins, \* the plugin registry: plugin name -> plugin
    op,          \* the operation that ran last
    arg,         \* its identifier argument (getShippingMethodById)
    result,      \* what it returned
    pending,     \* concurrent callers: the calls each of them has still to make
    history      \* the calls the callers completed, in the order they ran

vars == <<config, context, conditions, pricing, customPlugins, op, arg, result,
          pending, history>>

----------------------------------------------------------------------------
(* Bounds of the model *)

MaxValue == 2      \* order values, item counts and weights range over 0..MaxValue
MaxBound == 1      \* range thresholds (min / max) range over 0..MaxBound
MaxDate == 2       \* wall-clock readings range over 0..MaxDate (milliseconds)
MaxOffset == 1     \* UTC offsets range over 0..MaxOffset (milliseconds)
MaxPrice == 3      \* configured price amounts range over 0..MaxPrice

----------------------------------------------------------------------------
(* Optional values *)

Absent == <<>>
Some(x) == <<x>>
Has(o) == o /= Absent
Get(o) == o[1]
Opt(S) == {Absent} \cup {Some(x) : x \in S}

Countries == {"US", "CA", "VN"}

----------------------------------------------------------------------------
(* conditions.ts *)

\* new Date(isoString).getTime(): the instant of a wall-clock reading at an offset
DateParse(d) == d.wall - d.off

isInRangeLowerExclusive(value, range) ==
    IF ~Has(range) THEN TRUE
    ELSE LET r == Get(range) IN
         IF Has(r.min) /\ value <= Get(r.min) THEN FALSE
         ELSE IF Has(r.max) /\ value > Get(r.max) THEN FALSE
         ELSE TRUE

isInRange(value, range) ==
    IF ~Has(range) THEN TRUE
    ELSE LET r == Get(range) IN
         IF Has(r.min) /\ value < Get(r.min) THEN FALSE
         ELSE IF Has(r.max) /\ value > Get(r.max) THEN FALSE
         ELSE TRUE

\* context.weight ?? 0
WeightOf(ctx) == IF Has(ctx.weight) THEN Get(ctx.weight) ELSE 0

evaluateOrderConditions(oc, ctx) ==
    IF ~Has(oc) THEN TRUE
    ELSE LET o == Get(oc) IN
         IF Has(o.value) /\ ~isInRange(ctx.orderValue, o.value) THEN FALSE
         ELSE IF Has(o.items) /\ ~isInRange(ctx.itemCount, o.items) THEN FALSE
         ELSE IF Has(o.weight) /\ ~isInRange(WeightOf(ctx), o.weight) THEN FALSE
         ELSE TRUE

evaluateGeoCountryIncludeWins(geoCountry, country) ==
    IF ~Has(geoCountry) THEN TRUE
    ELSE LET g == Get(geoCountry) IN
         IF Has(g.include) /\ Get(g.include) /= {}
         THEN country \in Get(g.include)
         ELSE ~(Has(g.exclude) /\ Get(g.exclude) /= {} /\ country \in Get(g.exclude))

evaluateGeoCountry(geoCountry, country) ==
    IF ~Has(geoCountry) THEN TRUE
    ELSE LET g == Get(geoCountry) IN
         IF Has(g.include) /\ Get(g.include) /= {} /\ country \notin Get(g.include)
         THEN FALSE
         ELSE IF Has(g.exclude) /\ Get(g.exclude) /= {} /\ country \in Get(g.exclude)
         THEN FALSE
         ELSE TRUE

\* A context without an order date fails every date criterion
evaluateDateCriteriaStrict(dateCriteria, orderDate) ==
    IF ~Has(dateCriteria) THEN TRUE
    ELSE IF ~Has(orderDate) THEN FALSE
    ELSE LET d == Get(dateCriteria)
             orderTimestamp == Get(orderDate)
         IN  IF Has(d.after) /\ orderTimestamp < DateParse(Get(d.after)) THEN FALSE
             ELSE IF Has(d.before) /\ orderTimestamp >= DateParse(Get(d.before)) THEN FALSE
             ELSE TRUE

evaluateDateCriteriaBeforeInclusive(dateCriteria, orderDate) ==
    IF ~Has(dateCriteria) THEN TRUE
    ELSE IF ~Has(orderDate) THEN TRUE
    ELSE LET d == Get(dateCriteria)
             orderTimestamp == Get(orderDate)
         IN  IF Has(d.after) /\ orderTimestamp < DateParse(Get(d.after)) THEN FALSE
             ELSE IF Has(d.before) /\ orderTimestamp > DateParse(Get(d.before)) THEN FALSE
             ELSE TRUE

evaluateDateCriteria(dateCriteria, orderDate) ==
    IF ~Has(dateCriteria) THEN TRUE
    ELSE IF ~Has(orderDate) THEN TRUE
    ELSE LET d == Get(dateCriteria)
             orderTimestamp == Get(orderDate)
         IN  IF Has(d.after) /\ orderTimestamp < DateParse(Get(d.after)) THEN FALSE
             ELSE IF Has(d.before) /\ orderTimestamp >= DateParse(Get(d.before)) THEN FALSE
             ELSE TRUE

evaluateConditions(conds, ctx) ==
    IF ~Has(conds) THEN TRUE
    ELSE LET c == Get(conds) IN
         IF Has(c.geo) /\ ~evaluateGeoCountry(c.geo, ctx.country) THEN FALSE
         ELSE IF Has(c.order) /\ ~evaluateOrderConditions(c.order, ctx) THEN FALSE
         ELSE IF Has(c.date) /\ ~evaluateDateCriteria(c.date, ctx.orderDate) THEN FALSE
         ELSE TRUE


----------------------------------------------------------------------------
(* pricing.ts *)

\* What a call produced: a returned value, or a thrown Error
Returned(v) == [threw |-> FALSE, value |-> v]
Thrown(msg, what) == [threw |-> TRUE, error |-> msg, about |-> what]

PluginNames == {"weight_based", "vn_weight_based"}

\* weightBasedPlugin, and the plugin of the custom-plugin example (the same formula)
weightBasedPlugin(pluginConfig, ctx) ==
    LET ratePerKg == pluginConfig.ratePerKg
        minCharge == IF Has(pluginConfig.minCharge) THEN Get(pluginConfig.minCharge) ELSE 0
        weight == IF Has(ctx.weight) THEN Get(ctx.weight) ELSE 0
        calculated == weight * ratePerKg
    IN  IF calculated >= minCharge THEN calculated ELSE minCharge

\* a plugin of the caller's own: a fixed charge per item
perItemPlugin(pluginConfig, ctx) == pluginConfig.ratePerKg * ctx.itemCount

PluginFns == {"weightBasedPlugin", "perItemPlugin"}

ApplyPlugin(fn, pluginConfig, ctx) ==
    IF fn = "weightBasedPlugin" THEN weightBasedPlugin(pluginConfig, ctx)
    ELSE perItemPlugin(pluginConfig, ctx)

\* A name that is already bound keeps its first plugin
RegistrySetFirstWins(registry, name, plugin) ==
    [n \in (DOMAIN registry) \cup {name} |-> IF n \in DOMAIN registry THEN registry[n] ELSE plugin]

\* Setting a name drops every other binding
RegistrySetAlone(registry, name, plugin) == [n \in {name} |-> plugin]

\* customPlugins.set(name, plugin)
RegistrySet(registry, name, plugin) ==
    [n \in (DOMAIN registry) \cup {name} |-> IF n = name THEN plugin ELSE registry[n]]

calculateFlatPrice(amount) == amount

calculateItemBasedPricePerItem(firstItemPrice, additionalItemPrice, itemCount) ==
    IF itemCount <= 0 THEN 0
    ELSE IF itemCount = 1 THEN firstItemPrice
    ELSE firstItemPrice + additionalItemPrice * itemCount

calculateItemBasedPrice(firstItemPrice, additionalItemPrice, itemCount) ==
    IF itemCount <= 0 THEN 0
    ELSE IF itemCount = 1 THEN firstItemPrice
    ELSE firstItemPrice + additionalItemPrice * (itemCount - 1)

\* Bounds configured with min above max are ignored
calculateValueBasedPriceInvertedIgnored(percentage, orderValue, minAmount, maxAmount) ==
    LET price0 == orderValue * percentage
        price1 == IF Has(minAmount) /\ price0 < Get(minAmount) THEN Get(minAmount) ELSE price0
        price2 == IF Has(maxAmount) /\ price1 > Get(maxAmount) THEN Get(maxAmount) ELSE price1
    IN  IF Has(minAmount) /\ Has(maxAmount) /\ Get(minAmount) > Get(maxAmount)
        THEN price0
        ELSE price2

\* The max clamp applied before the min clamp
calculateValueBasedPriceMaxFirst(percentage, orderValue, minAmount, maxAmount) ==
    LET price0 == orderValue * percentage
        price1 == IF Has(maxAmount) /\ price0 > Get(maxAmount) THEN Get(maxAmount) ELSE price0
        price2 == IF Has(minAmount) /\ price1 < Get(minAmount) THEN Get(minAmount) ELSE price1
    IN  price2

\* orderValue * (percentage / 100) in units is orderValue * percentage in hundredths
calculateValueBasedPrice(percentage, orderValue, minAmount, maxAmount) ==
    LET price0 == orderValue * percentage
        price1 == IF Has(minAmount) /\ price0 < Get(minAmount) THEN Get(minAmount) ELSE price0
        price2 == IF Has(maxAmount) /\ price1 > Get(maxAmount) THEN Get(maxAmount) ELSE price1
    IN  price2

\* A name that is not registered is priced by whatever plugin is registered
calculateCustomPriceAnyPlugin(registry, pluginName, pluginConfig, ctx) ==
    IF pluginName \in DOMAIN registry
    THEN Returned(ApplyPlugin(registry[pluginName], pluginConfig, ctx))
    ELSE IF DOMAIN registry = {}
    THEN Thrown("Custom pricing plugin not found", pluginName)
    ELSE Returned(ApplyPlugin(registry[CHOOSE n \in DOMAIN registry : TRUE], pluginConfig, ctx))

\* A name that is not registered is priced at 0 instead of failing
calculateCustomPriceDefaultZero(registry, pluginName, pluginConfig, ctx) ==
    IF pluginName \notin DOMAIN registry
    THEN Returned(0)
    ELSE Returned(ApplyPlugin(registry[pluginName], pluginConfig, ctx))

calculateCustomPrice(registry, pluginName, pluginConfig, ctx) ==
    IF pluginName \notin DOMAIN registry
    THEN Thrown("Custom pricing plugin not found", pluginName)
    ELSE Returned(ApplyPlugin(registry[pluginName], pluginConfig, ctx))

\* An item-based formula rejects an item count below one instead of pricing it
calculatePriceCheckedItems(registry, p, ctx) ==
    CASE p.type = "flat" -> Returned(calculateFlatPrice(p.amount))
      [] p.type = "item_based" ->
            IF ctx.itemCount <= 0 THEN Thrown("Invalid item count", p.type)
            ELSE Returned(calculateItemBasedPrice(p.firstItemPrice, p.additionalItemPrice,
                                                  ctx.itemCount))
      [] p.type = "value_based" ->
            Returned(calculateValueBasedPrice(p.percentage, ctx.orderValue,
                                              p.minAmount, p.maxAmount))
      [] p.type = "tiered" -> Returned(0)
      [] p.type = "custom" -> calculateCustomPrice(registry, p.plugin, p.config, ctx)
      [] OTHER -> Thrown("Unknown pricing type", p.type)

calculatePrice(registry, p, ctx) ==
    CASE p.type = "flat" -> Returned(calculateFlatPrice(p.amount))
      [] p.type = "item_based" ->
            Returned(calculateItemBasedPrice(p.firstItemPrice, p.additionalItemPrice,
                                             ctx.itemCount))
      [] p.type = "value_based" ->
            Returned(calculateValueBasedPrice(p.percentage, ctx.orderValue,
                                              p.minAmount, p.maxAmount))
      [] p.type = "tiered" -> Returned(0)
      [] p.type = "custom" -> calculateCustomPrice(registry, p.plugin, p.config, ctx)
      [] OTHER -> Thrown("Unknown pricing type", p.type)


----------------------------------------------------------------------------
(* utils.ts *)

\* A configured string is held as its pieces, each ${remaining} placeholder a piece
\* of its own; Join gives the text of the pieces
Placeholder == "${remaining}"

RECURSIVE Join(_)
Join(pieces) == IF pieces = <<>> THEN "" ELSE Head(pieces) \o Join(Tail(pieces))

\* remaining.toFixed(2) of a whole amount
toFixed(amount) == ToString(amount) \o ".00"

\* resolveLocalizedString of a plain string: undefined when absent or empty
resolveLocalizedString(str) ==
    IF ~Has(str) \/ Get(str) = <<>> THEN Absent ELSE Some(Join(Get(str)))

\* interpolateMessage(resolveLocalizedString(message), {remaining}): undefined for an
\* absent or empty message, else its text with every ${remaining} replaced
interpolateMessage(message, remaining) ==
    IF ~Has(message) \/ Get(message) = <<>> THEN Absent
    ELSE Some(Join([i \in 1..Len(Get(message)) |->
                      IF Get(message)[i] = Placeholder THEN remaining
                      ELSE Get(message)[i]]))

----------------------------------------------------------------------------
(* frontend.ts *)

Colon == ":"

\* `${method.id}:${rule.id}`
CompositeId(methodId, tierId) == methodId \o <<Colon>> \o tierId

\* The order block of the criteria is all that is looked at
evaluateTieredRule(rule, ctx) ==
    IF Has(rule.criteria.order)
    THEN LET o == Get(rule.criteria.order)
             lo(r) == IF Has(r) THEN Get(r).min ELSE Absent
             hi(r) == IF Has(r) THEN Get(r).max ELSE Absent
         IN  IF Has(lo(o.value)) /\ ctx.orderValue < Get(lo(o.value)) THEN FALSE
             ELSE IF Has(hi(o.value)) /\ ctx.orderValue > Get(hi(o.value)) THEN FALSE
             ELSE IF Has(lo(o.items)) /\ ctx.itemCount < Get(lo(o.items)) THEN FALSE
             ELSE IF Has(hi(o.items)) /\ ctx.itemCount > Get(hi(o.items)) THEN FALSE
             ELSE IF Has(lo(o.weight)) /\ WeightOf(ctx) < Get(lo(o.weight)) THEN FALSE
             ELSE IF Has(hi(o.weight)) /\ WeightOf(ctx) > Get(hi(o.weight)) THEN FALSE
             ELSE TRUE
    ELSE TRUE

\* Array.prototype.find over the outcomes of its predicate: the first index that
\* holds TRUE, 0 if none
FirstTrue(flags) ==
    IF \E i \in 1..Len(flags) : flags[i]
    THEN CHOOSE i \in 1..Len(flags) : flags[i] /\ \A j \in 1..(i - 1) : ~flags[j]
    ELSE 0

\* Any unmet tier with an availability block is hinted at, whatever its price
findNextTierAnyPrice(rules, current, ctx) ==
    FirstTrue([i \in 1..Len(rules) |->
                  /\ Has(rules[i].availability)
                  /\ ~evaluateTieredRule(rules[i], ctx)])

\* the index of the next tier to hint at; current = 0 when no tier is matched
findNextTierWithAvailability(rules, current, ctx) ==
    FirstTrue([i \in 1..Len(rules) |->
                  /\ (IF current /= 0 THEN rules[i].price < rules[current].price ELSE TRUE)
                  /\ Has(rules[i].availability)
                  /\ ~evaluateTieredRule(rules[i], ctx)])

\* the index of the first tier whose criteria hold, 0 if none
findMatchingRule(rules, ctx) ==
    FirstTrue([i \in 1..Len(rules) |-> evaluateTieredRule(rules[i], ctx)])

\* required / remaining of the first listed trigger, read from the target's conditions
HintRequired(firstCondition, order) ==
    LET minOf(r) == IF Has(r) /\ Has(Get(r).min) THEN Get(Get(r).min) ELSE 0
    IN  IF ~Has(order) THEN 0
        ELSE IF firstCondition = "order.value.min" THEN minOf(Get(order).value)
        ELSE IF firstCondition = "order.items.min" THEN minOf(Get(order).items)
        ELSE IF firstCondition = "order.weight.min" THEN minOf(Get(order).weight)
        ELSE 0

\* The whole threshold counts as remaining, whatever the order already holds
HintRemainingFromZero(firstCondition, order, ctx) ==
    HintRequired(firstCondition, order)

HintRemaining(firstCondition, order, ctx) ==
    IF firstCondition = "order.value.min"
    THEN HintRequired(firstCondition, order) - ctx.orderValue
    ELSE IF firstCondition = "order.items.min"
    THEN HintRequired(firstCondition, order) - ctx.itemCount
    ELSE IF firstCondition = "order.weight.min"
    THEN HintRequired(firstCondition, order) - WeightOf(ctx)
    ELSE 0

\* The percentage is taken of what remains instead of what is reached
ProgressOfRemaining(required, remaining) ==
    [current |-> required - remaining,
     required |-> required,
     remaining |-> remaining,
     percentage |-> IF required > 0 THEN <<remaining * 100, required>> ELSE <<0, 1>>]

\* the progress block; percentage = (current / required) * 100 as the fraction <<num, den>>
Progress(required, remaining) ==
    [current |-> required - remaining,
     required |-> required,
     remaining |-> remaining,
     percentage |-> IF required > 0 THEN <<(required - remaining) * 100, required>>
                    ELSE <<0, 1>>]

DisplayBase(method) ==
    [id |-> method.id, methodId |-> method.id, tierId |-> Absent, price |-> 0,
     available |-> FALSE, enabled |-> method.enabled, availabilityMode |-> Absent,
     message |-> Absent, upgradeMessage |-> Absent, progress |-> Absent,
     nextTier |-> Absent]

\* The tier search runs although the base conditions failed
TieredDisplayUngated(method, ctx, conditionsMet) ==
    LET rules == method.pricing.rules
        m == findMatchingRule(rules, ctx)
    IN  IF m = 0 THEN [DisplayBase(method) EXCEPT !.message = Some("No matching tier")]
        ELSE [DisplayBase(method) EXCEPT
                 !.id = CompositeId(method.id, rules[m].id),
                 !.tierId = Some(rules[m].id),
                 !.price = rules[m].price,
                 !.available = TRUE]

\* calculateShippingMethod, the branch of a tiered method
TieredDisplay(method, ctx, conditionsMet) ==
    IF ~conditionsMet
    THEN [DisplayBase(method) EXCEPT !.message = Some("Conditions not met")]
    ELSE
    LET rules == method.pricing.rules
        m == findMatchingRule(rules, ctx)
    IN  IF m = 0
        THEN [DisplayBase(method) EXCEPT !.message = Some("No matching tier")]
        ELSE
        LET matchingRule == rules[m]
            n == findNextTierWithAvailability(rules, m, ctx)
            base == [DisplayBase(method) EXCEPT
                        !.id = CompositeId(method.id, matchingRule.id),
                        !.tierId = Some(matchingRule.id),
                        !.price = matchingRule.price,
                        !.available = TRUE,
                        !.upgradeMessage = resolveLocalizedString(matchingRule.upgradeMessage)]
        IN  IF n = 0 THEN base
            ELSE
            LET nextTier == rules[n]
                av == Get(nextTier.availability)
            IN  IF av.when = <<>> THEN base
                ELSE
                LET firstCondition == av.when[1]
                    required == HintRequired(firstCondition, nextTier.criteria.order)
                    remaining == HintRemaining(firstCondition, nextTier.criteria.order, ctx)
                IN  IF remaining > 0
                    THEN [base EXCEPT
                             !.availabilityMode = av.mode,
                             !.upgradeMessage = interpolateMessage(av.message,
                                                                   toFixed(remaining)),
                             !.progress = IF av.showProgress
                                          THEN Some(Progress(required, remaining))
                                          ELSE Absent,
                             !.nextTier = Some([id |-> nextTier.id, price |-> nextTier.price])]
                    ELSE base

\* calculateShippingMethod, a non-tiered method whose conditions are not met
UnavailableDisplay(method, ctx) ==
    LET hidden == [DisplayBase(method) EXCEPT
                      !.availabilityMode = Some("hide"),
                      !.message = Some("Conditions not met")]
    IN  IF ~Has(method.availability) THEN hidden
        ELSE
        LET av == Get(method.availability) IN
        IF av.when = <<>> \/ ~Has(av.message) \/ Get(av.message) = <<>> THEN hidden
        ELSE
        LET firstCondition == av.when[1]
            order == IF Has(method.conditions) THEN Get(method.conditions).order ELSE Absent
            required == HintRequired(firstCondition, order)
            remaining == HintRemaining(firstCondition, order, ctx)
        IN  IF remaining > 0
            THEN [DisplayBase(method) EXCEPT
                     !.availabilityMode = av.mode,
                     !.message = interpolateMessage(av.message, toFixed(remaining)),
                     !.progress = IF av.showProgress
                                  THEN Some(Progress(required, remaining))
                                  ELSE Absent]
            ELSE hidden

\* calculateShippingMethod of the frontend: Returned(result) or the Error thrown
calculateShippingMethod(registry, method, ctx) ==
    LET conditionsMet == evaluateConditions(method.conditions, ctx) IN
    IF method.pricing.type = "tiered"
    THEN Returned(TieredDisplay(method, ctx, conditionsMet))
    ELSE IF ~conditionsMet THEN Returned(UnavailableDisplay(method, ctx))
    ELSE LET price == calculatePrice(registry, method.pricing, ctx) IN
         IF price.threw THEN price
         ELSE Returned([DisplayBase(method) EXCEPT !.price = price.value,
                                                   !.available = TRUE])

\* display.priority ?? 999 of the (first) method with that id
DefaultPriority == 999

\* A method without a display priority is sorted before every other
PriorityOfUnsetFirst(methods, methodId) ==
    LET i == FirstTrue([k \in 1..Len(methods) |-> methods[k].id = methodId])
    IN  IF i /= 0 /\ Has(methods[i].priority) THEN Get(methods[i].priority)
        ELSE 0

PriorityOf(methods, methodId) ==
    LET i == FirstTrue([k \in 1..Len(methods) |-> methods[k].id = methodId])
    IN  IF i /= 0 /\ Has(methods[i].priority) THEN Get(methods[i].priority)
        ELSE DefaultPriority

\* the comparator of the sort: negative when a comes first
Compare(methods, a, b) ==
    LET priorityA == PriorityOf(methods, a.methodId)
        priorityB == PriorityOf(methods, b.methodId)
    IN  IF priorityA /= priorityB THEN priorityA - priorityB
        ELSE a.price - b.price

\* Array.prototype.sort (stable): insertion of each element after its equals
RECURSIVE InsertSorted(_, _, _)
InsertSorted(methods, sorted, x) ==
    IF sorted = <<>> THEN <<x>>
    ELSE IF Compare(methods, x, Head(sorted)) < 0 THEN <<x>> \o sorted
    ELSE <<Head(sorted)>> \o InsertSorted(methods, Tail(sorted), x)

RECURSIVE SortResults(_, _)
SortResults(methods, results) ==
    IF results = <<>> THEN <<>>
    ELSE InsertSorted(methods,
                      SortResults(methods, SubSeq(results, 1, Len(results) - 1)),
                      results[Len(results)])

getShippingMethodsForDisplay(registry, methods, ctx) ==
    LET each == [i \in 1..Len(methods) |-> calculateShippingMethod(registry, methods[i], ctx)]
    IN  IF \E i \in 1..Len(methods) : each[i].threw
        THEN each[CHOOSE i \in 1..Len(methods) :
                     each[i].threw /\ \A j \in 1..(i - 1) : ~each[j].threw]
        ELSE Returned(SortResults(methods, [i \in 1..Len(methods) |-> each[i].value]))


----------------------------------------------------------------------------
(* backend.ts *)

\* The same helper, as backend.ts declares it
evaluateTieredRuleBackend(rule, ctx) ==
    IF Has(rule.criteria.order)
    THEN LET o == Get(rule.criteria.order)
             lo(r) == IF Has(r) THEN Get(r).min ELSE Absent
             hi(r) == IF Has(r) THEN Get(r).max ELSE Absent
         IN  IF Has(lo(o.value)) /\ ctx.orderValue < Get(lo(o.value)) THEN FALSE
             ELSE IF Has(hi(o.value)) /\ ctx.orderValue > Get(hi(o.value)) THEN FALSE
             ELSE IF Has(lo(o.items)) /\ ctx.itemCount < Get(lo(o.items)) THEN FALSE
             ELSE IF Has(hi(o.items)) /\ ctx.itemCount > Get(hi(o.items)) THEN FALSE
             ELSE IF Has(lo(o.weight)) /\ WeightOf(ctx) < Get(lo(o.weight)) THEN FALSE
             ELSE IF Has(hi(o.weight)) /\ WeightOf(ctx) > Get(hi(o.weight)) THEN FALSE
             ELSE TRUE
    ELSE TRUE

\* id.split(":"): parts[0], and parts[1] when there is more than one part
FirstColon(id) == FirstTrue([i \in 1..Len(id) |-> id[i] = Colon])

\* The whole identifier is taken as the method id
SplitMethodIdWhole(id) == id

SplitMethodId(id) ==
    IF FirstColon(id) = 0 THEN id ELSE SubSeq(id, 1, FirstColon(id) - 1)

SplitTierId(id) ==
    IF FirstColon(id) = 0 THEN Absent
    ELSE LET rest == SubSeq(id, FirstColon(id) + 1, Len(id))
         IN  Some(IF FirstColon(rest) = 0 THEN rest
                  ELSE SubSeq(rest, 1, FirstColon(rest) - 1))

\* A suffix that names no tier falls back to the first tier
FindTierOrFirst(rules, tierId) ==
    IF \E k \in 1..Len(rules) : rules[k].id = tierId
    THEN CHOOSE k \in 1..Len(rules) :
            rules[k].id = tierId /\ \A j \in 1..(k - 1) : rules[j].id /= tierId
    ELSE 1

\* method.pricing.rules.find((r) => r.id === tierId): its index, 0 if none
FindTier(rules, tierId) ==
    FirstTrue([k \in 1..Len(rules) |-> rules[k].id = tierId])

\* getShippingMethodById: Returned(Absent) for undefined, Returned(Some(result)),
\* or the Error thrown
getShippingMethodById(registry, methods, id, ctx) ==
    LET methodId == SplitMethodId(id)
        tierId == SplitTierId(id)
        mi == FirstTrue([k \in 1..Len(methods) |-> methods[k].id = methodId])
    IN  IF mi = 0 THEN Returned(Absent)
        ELSE
        LET method == methods[mi] IN
        IF Has(tierId) /\ Get(tierId) /= <<>> /\ method.pricing.type = "tiered"
        THEN LET rules == method.pricing.rules
                 ti == FindTier(rules, Get(tierId))
             IN  IF ti = 0 THEN Returned(Absent)
                 ELSE
                 LET tier == rules[ti]
                     baseConditionsMet == evaluateConditions(method.conditions, ctx)
                     tierValid == evaluateTieredRuleBackend(tier, ctx)
                 IN  Returned(Some([id |-> id, methodId |-> method.id,
                                    tierId |-> Some(tier.id), price |-> tier.price,
                                    available |-> method.enabled /\ baseConditionsMet
                                                                 /\ tierValid,
                                    enabled |-> method.enabled]))
        ELSE
        LET conditionsMet == evaluateConditions(method.conditions, ctx)
            available == method.enabled /\ conditionsMet
        IN  IF ~available
            THEN Returned(Some([id |-> method.id, methodId |-> method.id,
                                tierId |-> Absent, price |-> 0, available |-> FALSE,
                                enabled |-> method.enabled]))
            ELSE LET price == calculatePrice(registry, method.pricing, ctx) IN
                 IF price.threw THEN price
                 ELSE Returned(Some([id |-> method.id, methodId |-> method.id,
                                     tierId |-> Absent, price |-> price.value,
                                     available |-> TRUE, enabled |-> method.enabled]))


----------------------------------------------------------------------------
(* The inputs the operations are applied to *)

Ctx(v, n, w, c, d) ==
    [orderValue |-> v, itemCount |-> n, weight |-> w, country |-> c, orderDate |-> d]

Range(lo, hi) == [min |-> lo, max |-> hi]
Order(v, i, w) == [value |-> v, items |-> i, weight |-> w]
Geo(inc, exc) == [include |-> inc, exclude |-> exc]
DateStr(wall, off) == [wall |-> wall, off |-> off]
DateBlock(after, before) == [after |-> after, before |-> before]
Cond(g, o, d) == [geo |-> g, order |-> o, date |-> d]

RangeSet == {Range(lo, hi) : lo \in Opt(0..MaxBound), hi \in Opt(0..MaxBound)}
GeoSet == {Geo(inc, exc) : inc \in Opt(SUBSET Countries), exc \in Opt(SUBSET Countries)}
DateStrSet == {DateStr(wall, off) : wall \in 0..MaxDate, off \in 0..MaxOffset}
DateSet == {DateBlock(a, b) : a \in Opt(DateStrSet), b \in Opt(DateStrSet)}
Instants == (0 - MaxOffset)..MaxDate

NoPricing == [type |-> "flat", amount |-> 0]
EmptyRegistry == <<>>

Flat(a) == [type |-> "flat", amount |-> a]
ItemBased(f, a) == [type |-> "item_based", firstItemPrice |-> f, additionalItemPrice |-> a]
ValueBased(p, lo, hi) ==
    [type |-> "value_based", percentage |-> p, minAmount |-> lo, maxAmount |-> hi]
Tiered(rules) == [type |-> "tiered", rules |-> rules]
Custom(name, rate, minCharge) ==
    [type |-> "custom", plugin |-> name,
     config |-> [ratePerKg |-> rate, minCharge |-> minCharge]]

Percentages == {50, 100, 150}
ClampAmounts == {75 * n : n \in 0..MaxPrice}

Criteria(o, g, d) == [order |-> o, geo |-> g, date |-> d]
Hint(mode, when, message, showProgress) ==
    [mode |-> mode, when |-> when, message |-> message, showProgress |-> showProgress]
Tier(id, criteria, price, availability) ==
    [id |-> id, criteria |-> criteria, price |-> price, availability |-> availability,
     upgradeMessage |-> Absent]
Method(id, enabled, conds, pr, availability, priority) ==
    [id |-> id, enabled |-> enabled, conditions |-> conds, pricing |-> pr,
     availability |-> availability, priority |-> priority]

ValueMin(t) == Some(Order(Some(Range(Some(t), Absent)), Absent, Absent))
ValueMax(t) == Some(Order(Some(Range(Absent, Some(t))), Absent, Absent))
ItemsMin(t) == Some(Order(Absent, Some(Range(Some(t), Absent)), Absent))
ItemsMax(t) == Some(Order(Absent, Some(Range(Absent, Some(t))), Absent))
WeightMin(t) == Some(Order(Absent, Absent, Some(Range(Some(t), Absent))))
WeightMax(t) == Some(Order(Absent, Absent, Some(Range(Absent, Some(t)))))
IncludeOnly(c) == Some(Geo(Some({c}), Absent))
AfterOnly(d) == Some(DateBlock(Some(d), Absent))
BeforeOnly(d) == Some(DateBlock(Absent, Some(d)))

\* Tier criteria on the order value and the country
TierCriteriaSet ==
    {Criteria(Absent, Absent, Absent), Criteria(Absent, IncludeOnly("CA"), Absent)}
    \cup {Criteria(ValueMax(k - 1), Absent, Absent) : k \in 1..MaxBound}
    \cup {Criteria(ValueMin(k), Absent, Absent) : k \in 1..MaxBound}

\* Tier criteria of a seasonal method: date windows around one instant, a fallback
\* without criteria, and an order-value floor
TierDateCriteriaSet ==
    {Criteria(Absent, Absent, Absent),
     Criteria(Absent, Absent, BeforeOnly(DateStr(1, 0))),
     Criteria(Absent, Absent, AfterOnly(DateStr(1, 0))),
     Criteria(ValueMin(1), Absent, Absent)}

\* Tier criteria on the item count and the weight
TierMetricCriteriaSet ==
    {Criteria(ItemsMin(MaxValue), Absent, Absent), Criteria(ItemsMax(1), Absent, Absent),
     Criteria(WeightMin(1), Absent, Absent), Criteria(WeightMax(0), Absent, Absent)}

TierPrices == {0, MaxPrice}

ValueHint ==
    Some(Hint(Some("show_hint"), <<"order.value.min">>, Some(<<"Add ", Placeholder>>), TRUE))

\* A tier declares an upgrade hint only where it has a threshold to reach
TierHintsFor(criteria) ==
    IF Has(criteria.order) /\ Has(Get(criteria.order).value)
       /\ Has(Get(Get(criteria.order).value).min)
    THEN {Absent, ValueHint}
    ELSE {Absent}

\* Base conditions of a method
BaseCondSet ==
    {Absent,
     Some(Cond(IncludeOnly("US"), Absent, Absent)),
     Some(Cond(Absent, ValueMin(1), Absent))}

\* Conditions of a non-tiered method
MethodCondSet ==
    BaseCondSet
    \cup {Some(Cond(Absent, Absent, AfterOnly(DateStr(1, 0)))),
          Some(Cond(IncludeOnly("US"), ValueMin(MaxValue), Absent))}

\* Availability blocks of a non-tiered method
MethodHintSet ==
    {Absent,
     ValueHint,
     Some(Hint(Some("show_disabled"), <<"order.value.min">>, Absent, FALSE))}

\* Non-tiered pricing formulas
SimplePricingSet ==
    {Flat(MaxPrice), ItemBased(2, 1), ValueBased(100, Some(75), Some(150)),
     Custom("weight_based", 1, Absent)}

\* Trigger lists of an availability block: none, each kind alone, and two kinds
HintWhens ==
    {<<>>, <<"order.value.min">>, <<"order.items.min">>, <<"order.weight.min">>,
     <<"order.items.min", "order.value.min">>}

\* Order thresholds a hint leads to: on one metric, and on two metrics at once
HintOrderSet ==
    {ValueMin(MaxValue),
     Some(Order(Some(Range(Some(1), Absent)), Some(Range(Some(MaxValue), Absent)), Absent)),
     Some(Order(Some(Range(Some(1), Absent)), Absent, Some(Range(Some(1), Absent))))}

\* The order value and the free-shipping threshold of the upgrade-hint scenario
ExampleOrderValue == 75
ExampleThreshold == 100

\* Identifiers: two methods, two tiers, and a name nothing is configured under
IdM == <<"m">>
IdN == <<"n">>
IdS == <<"s">>
IdT == <<"t">>
IdX == <<"x">>

----------------------------------------------------------------------------
(* Operations *)

\* evaluateConditions(conditions, context)
EvaluateConditions ==
    /\ op' = "evaluateConditions"
    /\ arg' = <<>>
    /\ result' = evaluateConditions(conditions, context)
    /\ UNCHANGED <<config, context, conditions, pricing, customPlugins, pending, history>>

\* calculatePrice(pricing, context)
CalculatePrice ==
    /\ op' = "calculatePrice"
    /\ arg' = <<>>
    /\ result' = calculatePrice(customPlugins, pricing, context)
    /\ UNCHANGED <<config, context, conditions, pricing, customPlugins, pending, history>>

\* registerPricingPlugin(name, plugin)
RegisterPricingPlugin(name, plugin) ==
    /\ customPlugins' = RegistrySet(customPlugins, name, plugin)
    /\ op' = "registerPricingPlugin"
    /\ arg' = name
    /\ result' = Absent
    /\ UNCHANGED <<config, context, conditions, pricing, pending, history>>

\* No concurrent callers: the calls of the run are made one after the other
NoCallers == <<>>

\* The names of the plugins the configuration's custom formulas use
UsedPlugins(methods) ==
    {methods[i].pricing.plugin :
        i \in {k \in 1..Len(methods) : methods[k].pricing.type = "custom"}}

\* The identifiers a client may submit: each method, each of its tiers, a tier
\* it does not have, an empty suffix, a suffix with a second separator, and a
\* method that is not configured, alone and with a suffix
QueryIds(methods) ==
    {IdX, CompositeId(IdX, IdS)}
    \cup {methods[i].id : i \in 1..Len(methods)}
    \cup {CompositeId(methods[i].id, IdX) : i \in 1..Len(methods)}
    \cup {CompositeId(methods[i].id, <<>>) : i \in 1..Len(methods)}
    \cup {CompositeId(methods[i].id, CompositeId(IdX, IdS)) : i \in 1..Len(methods)}
    \cup UNION {{CompositeId(methods[i].id, methods[i].pricing.rules[k].id) :
                    k \in 1..Len(methods[i].pricing.rules)} :
                i \in {j \in 1..Len(methods) : methods[j].pricing.type = "tiered"}}
    \cup {CompositeId(methods[i].id, CompositeId(methods[i].pricing.rules[1].id, IdX)) :
             i \in {j \in 1..Len(methods) : methods[j].pricing.type = "tiered"}}

\* getShippingMethodsForDisplay(config, context)
GetShippingMethodsForDisplay ==
    /\ op' = "getShippingMethodsForDisplay"
    /\ arg' = <<>>
    /\ result' = getShippingMethodsForDisplay(customPlugins, config, context)
    /\ UNCHANGED <<config, context, conditions, pricing, customPlugins, pending, history>>

\* getShippingMethodById(config, id, context)
GetShippingMethodById(id) ==
    /\ op' = "getShippingMethodById"
    /\ arg' = id
    /\ result' = getShippingMethodById(customPlugins, config, id, context)
    /\ UNCHANGED <<config, context, conditions, pricing, customPlugins, pending, history>>

----------------------------------------------------------------------------
(* The Condition Evaluator on its own *)

\* The inputs of evaluateConditions: each block on its own over its whole bounded
\* range, then the three blocks together
InitCondInputs ==
    \/ \E v \in 0..MaxValue, c \in Countries :
          /\ conditions = Absent
          /\ context = Ctx(v, 1, Absent, c, Absent)
    \/ \E g \in GeoSet, v \in {0, MaxValue}, c \in Countries :
          /\ conditions = Some(Cond(Some(g), Absent, Absent))
          /\ context = Ctx(v, 1, Absent, c, Absent)
    \/ \E rv \in Opt(RangeSet), ri \in Opt(RangeSet), rw \in Opt(RangeSet),
          v \in 0..MaxValue, n \in 0..MaxValue, w \in Opt(0..MaxValue) :
          /\ conditions = Some(Cond(Absent, Some(Order(rv, ri, rw)), Absent))
          /\ context = Ctx(v, n, w, "US", Absent)
    \/ \E d \in DateSet, t \in Opt(Instants) :
          /\ conditions = Some(Cond(Absent, Absent, Some(d)))
          /\ context = Ctx(1, 1, Absent, "US", t)
    \/ \E g \in {Absent, Some(Geo(Some({"US"}), Absent)), Some(Geo(Absent, Some({"US"})))},
          o \in {Absent, Some(Order(Some(Range(Some(1), Absent)), Absent, Absent))},
          d \in {Absent, Some(DateBlock(Some(DateStr(1, 0)), Absent)),
                 Some(DateBlock(Absent, Some(DateStr(1, 0))))},
          v \in 0..MaxValue, c \in {"US", "CA"}, t \in Opt(0..MaxDate) :
          /\ conditions = Some(Cond(g, o, d))
          /\ context = Ctx(v, 1, Absent, c, t)

\* The conditions gate one flat-priced method
InitCond ==
    /\ InitCondInputs
    /\ config = <<Method(IdM, TRUE, conditions, Flat(MaxPrice), Absent, Absent)>>
    /\ pricing = NoPricing
    /\ customPlugins = EmptyRegistry
    /\ op = "init"
    /\ arg = <<>>
    /\ result = Absent
    /\ pending = NoCallers
    /\ history = <<>>

NextCond ==
    \/ EvaluateConditions
    \/ GetShippingMethodsForDisplay

SpecCond == InitCond /\ [][NextCond]_vars

----------------------------------------------------------------------------
(* The Pricing Calculator and its plugin registry on their own *)

\* The inputs of calculatePrice: every formula kind over its bounded parameters
InitPriceInputs ==
    \/ \E a \in 0..MaxPrice, v \in 0..MaxValue :
          /\ pricing = Flat(a)
          /\ context = Ctx(v, 1, Absent, "US", Absent)
    \/ \E f \in 0..MaxPrice, a \in 0..MaxPrice, n \in (0 - 1)..(MaxValue + 1) :
          /\ pricing = ItemBased(f, a)
          /\ context = Ctx(1, n, Absent, "US", Absent)
    \/ \E p \in Percentages, lo \in Opt(ClampAmounts), hi \in Opt(ClampAmounts),
          v \in 0..MaxValue :
          /\ pricing = ValueBased(p, lo, hi)
          /\ context = Ctx(v, 1, Absent, "US", Absent)
    \/ \E v \in 0..MaxValue :
          /\ pricing = Tiered(<<>>)
          /\ context = Ctx(v, 1, Absent, "US", Absent)
    \/ \E name \in PluginNames, rate \in 1..MaxPrice, mc \in Opt({MaxPrice}),
          n \in 1..MaxValue, w \in Opt(0..MaxValue) :
          /\ pricing = Custom(name, rate, mc)
          /\ context = Ctx(1, n, w, "US", Absent)

InitPrice ==
    /\ InitPriceInputs
    /\ config = <<>>
    /\ conditions = Absent
    /\ customPlugins = EmptyRegistry
    /\ op = "init"
    /\ arg = <<>>
    /\ result = Absent
    /\ pending = NoCallers
    /\ history = <<>>

NextPrice ==
    \/ CalculatePrice
    \/ \E name \in PluginNames, plugin \in PluginFns : RegisterPricingPlugin(name, plugin)

SpecPrice == InitPrice /\ [][NextPrice]_vars


----------------------------------------------------------------------------
(* The evaluation engine: display, validation and plugin registration *)

\* The configurations and contexts of the calls
InitInputs ==
    \* one tiered method of one or two tiers on order value and country
    \/ \E c1 \in TierCriteriaSet, c2 \in TierCriteriaSet, p1 \in TierPrices,
          p2 \in TierPrices, two \in BOOLEAN, base \in BaseCondSet, en \in BOOLEAN,
          v \in 0..MaxValue, c \in {"US", "CA"} :
          \E a1 \in TierHintsFor(c1), a2 \in TierHintsFor(c2) :
             /\ two \/ (c2 = c1 /\ p2 = p1 /\ a2 = a1)
             /\ config = <<Method(IdM, en, base,
                                  Tiered(IF two THEN <<Tier(IdS, c1, p1, a1), Tier(IdT, c2, p2, a2)>>
                                         ELSE <<Tier(IdS, c1, p1, a1)>>),
                                  Absent, Absent)>>
             /\ context = Ctx(v, 1, Absent, c, Absent)
    \* one seasonal tiered method, at every order date
    \/ \E c1 \in TierDateCriteriaSet, c2 \in TierDateCriteriaSet, p1 \in TierPrices,
          p2 \in TierPrices, two \in BOOLEAN, base \in BaseCondSet, en \in BOOLEAN,
          v \in {0, MaxValue}, d \in Opt(0..MaxDate) :
          \E a1 \in TierHintsFor(c1), a2 \in TierHintsFor(c2) :
             /\ two \/ (c2 = c1 /\ p2 = p1 /\ a2 = a1)
             /\ config = <<Method(IdM, en, base,
                                  Tiered(IF two THEN <<Tier(IdS, c1, p1, a1), Tier(IdT, c2, p2, a2)>>
                                         ELSE <<Tier(IdS, c1, p1, a1)>>),
                                  Absent, Absent)>>
             /\ context = Ctx(v, 1, Absent, "US", d)
    \* one tiered method whose tier is selected by item count or weight
    \/ \E c1 \in TierMetricCriteriaSet, en \in BOOLEAN, k \in 1..MaxValue,
          w \in Opt(0..MaxValue) :
          /\ config = <<Method(IdM, en, Absent,
                               Tiered(<<Tier(IdS, c1, MaxPrice, Absent),
                                        Tier(IdT, Criteria(Absent, Absent, Absent), 0, Absent)>>),
                               Absent, Absent)>>
          /\ context = Ctx(1, k, w, "US", Absent)
    \* one non-tiered method
    \/ \E pr \in SimplePricingSet, cd \in MethodCondSet, av \in MethodHintSet,
          en \in BOOLEAN, v \in 0..MaxValue, k \in 1..MaxValue, c \in {"US", "CA"},
          d \in Opt(0..MaxDate) :
          /\ config = <<Method(IdM, en, cd, pr, av, Absent)>>
          /\ context = Ctx(v, k, Some(k), c, d)
    \* one flat method under a date window, at every instant
    \/ \E db \in DateSet, d \in Opt(Instants), en \in BOOLEAN :
          /\ config = <<Method(IdM, en, Some(Cond(Absent, Absent, Some(db))),
                               Flat(MaxPrice), Absent, Absent)>>
          /\ context = Ctx(1, 1, Absent, "US", d)
    \* two methods, with and without display priorities
    \/ \E pm \in {Flat(MaxPrice), Flat(1),
                  Tiered(<<Tier(IdS, Criteria(ValueMax(0), Absent, Absent), MaxPrice, Absent),
                           Tier(IdT, Criteria(ValueMin(1), Absent, Absent), 0, ValueHint)>>)},
          pn \in {Flat(2), ItemBased(2, 1), Custom("vn_weight_based", 1, Some(MaxPrice))},
          cm \in BaseCondSet, em \in BOOLEAN,
          prm \in Opt({1, 2}), prn \in Opt({1}),
          v \in 0..MaxValue, c \in {"US", "CA"} :
          /\ config = <<Method(IdM, em, cm, pm, Absent, prm),
                        Method(IdN, TRUE, Absent, pn, Absent, prn)>>
          /\ context = Ctx(v, MaxValue, Some(1), c, Absent)

\* evaluateConditions is handed the base conditions of the first method
Init ==
    /\ InitInputs
    /\ conditions = config[1].conditions
    /\ pricing = NoPricing
    /\ customPlugins = EmptyRegistry
    /\ op = "init"
    /\ arg = <<>>
    /\ result = Absent
    /\ pending = NoCallers
    /\ history = <<>>

Next ==
    \/ EvaluateConditions
    \/ GetShippingMethodsForDisplay
    \/ \E id \in QueryIds(config) : GetShippingMethodById(id)
    \/ \E name \in UsedPlugins(config), plugin \in PluginFns :
          RegisterPricingPlugin(name, plugin)

Spec == Init /\ [][Next]_vars

----------------------------------------------------------------------------
(* The display on its own, over the configurations above and those with hints *)

\* Configurations whose tiers or methods declare upgrade and unlock hints
InitHintInputs ==
    \* a paid tier that matches every order, then a tier with an upgrade hint
    \/ \E o \in HintOrderSet, when \in HintWhens,
          mode \in {Some("show_hint"), Some("show_disabled")}, sp \in BOOLEAN,
          msg \in {Absent, Some(<<"Add ", Placeholder>>)},
          um \in {Absent, Some(<<"Spend more">>)}, pf \in TierPrices,
          v \in 0..MaxValue, k \in 1..MaxValue, w \in {Absent, Some(1)} :
          /\ config = <<Method(IdM, TRUE, Absent,
                               Tiered(<<[Tier(IdS, Criteria(Absent, Absent, Absent),
                                              MaxPrice, Absent)
                                            EXCEPT !.upgradeMessage = um],
                                        Tier(IdT, Criteria(o, Absent, Absent), pf,
                                             Some(Hint(mode, when, msg, sp)))>>),
                               Absent, Absent)>>
          /\ context = Ctx(v, k, w, "US", Absent)
    \* the upgrade-hint scenario: a paid tier below the threshold, a free tier from it
    \/ \E v \in {ExampleOrderValue, ExampleThreshold}, c \in {"US", "CA"} :
          /\ config = <<Method(IdM, TRUE, Some(Cond(IncludeOnly("US"), Absent, Absent)),
                               Tiered(<<Tier(IdS, Criteria(ValueMax(ExampleThreshold - 1),
                                                           Absent, Absent),
                                             MaxPrice, Absent),
                                        Tier(IdT, Criteria(ValueMin(ExampleThreshold),
                                                           Absent, Absent),
                                             0,
                                             Some(Hint(Some("show_hint"), <<"order.value.min">>,
                                                       Some(<<"Add $", Placeholder, " more">>),
                                                       TRUE)))>>),
                               Absent, Absent)>>
          /\ context = Ctx(v, MaxValue, Absent, c, Absent)
    \* one flat method with an unlock hint, for a country it serves and one it does not
    \/ \E o \in HintOrderSet, when \in HintWhens,
          mode \in {Absent, Some("hide"), Some("show_hint"), Some("show_disabled")},
          sp \in BOOLEAN, msg \in {Absent, Some(<<"Add ", Placeholder>>)},
          g \in {Absent, IncludeOnly("US")},
          v \in 0..MaxValue, k \in 1..MaxValue, w \in {Absent, Some(1)}, c \in {"US", "CA"} :
          /\ config = <<Method(IdM, TRUE, Some(Cond(g, o, Absent)), Flat(MaxPrice),
                               Some(Hint(mode, when, msg, sp)), Absent)>>
          /\ context = Ctx(v, k, w, c, Absent)

InitDisplay ==
    /\ InitInputs \/ InitHintInputs
    /\ conditions = config[1].conditions
    /\ pricing = NoPricing
    /\ customPlugins = EmptyRegistry
    /\ op = "init"
    /\ arg = <<>>
    /\ result = Absent
    /\ pending = NoCallers
    /\ history = <<>>

NextDisplay ==
    \/ GetShippingMethodsForDisplay
    \/ \E name \in UsedPlugins(config), plugin \in PluginFns :
          RegisterPricingPlugin(name, plugin)

SpecDisplay == InitDisplay /\ [][NextDisplay]_vars


----------------------------------------------------------------------------
(* The plugin registry under concurrent callers *)

\* registerPricingPlugin and calculatePrice are synchronous functions without an
\* await: a call runs to completion before another caller's call starts, and the
\* calls of concurrent callers interleave in any order.

MaxCalls == 3      \* the callers of a run make at most MaxCalls calls together

Callers == {1, 2}

\* A call: registerPricingPlugin(name, plugin), or calculatePrice of a custom formula
RegisterCall(name, plugin) == [kind |-> "register", name |-> name, plugin |-> Some(plugin)]
PriceCall(name) == [kind |-> "price", name |-> name, plugin |-> Absent]

CallSet ==
    {RegisterCall(name, plugin) : name \in PluginNames, plugin \in PluginFns}
    \cup {PriceCall(name) : name \in PluginNames}

\* The custom formula a caller prices: the plugin's rate per kg, no minimum charge
CallerPricing(name) == Custom(name, 1, Absent)

\* Caller c runs registerPricingPlugin(name, plugin)
CallerRegisters(c) ==
    /\ pending[c] /= <<>>
    /\ Head(pending[c]).kind = "register"
    /\ LET call == Head(pending[c])
       IN  /\ customPlugins' = RegistrySet(customPlugins, call.name, Get(call.plugin))
           /\ op' = "registerPricingPlugin"
           /\ arg' = call.name
           /\ result' = Absent
           /\ history' = Append(history, [caller |-> c, call |-> call, outcome |-> Absent])
    /\ pending' = [pending EXCEPT ![c] = Tail(@)]
    /\ UNCHANGED <<config, context, conditions, pricing>>

\* Caller c runs calculatePrice on a custom formula, which looks the plugin up
CallerPrices(c) ==
    /\ pending[c] /= <<>>
    /\ Head(pending[c]).kind = "price"
    /\ LET call == Head(pending[c])
           price == calculatePrice(customPlugins, CallerPricing(call.name), context)
       IN  /\ pricing' = CallerPricing(call.name)
           /\ op' = "calculatePrice"
           /\ arg' = <<>>
           /\ result' = price
           /\ history' = Append(history, [caller |-> c, call |-> call, outcome |-> price])
    /\ pending' = [pending EXCEPT ![c] = Tail(@)]
    /\ UNCHANGED <<config, context, conditions, customPlugins>>

\* Two callers with at most MaxCalls calls between them, and one method priced by a
\* plugin; the two plugins give different prices for the context
InitRegistry ==
    /\ \E la \in 0..MaxCalls :
          \E lb \in 0..(MaxCalls - la) :
             \E pa \in [1..la -> CallSet], pb \in [1..lb -> CallSet] :
                pending = <<pa, pb>>
    /\ history = <<>>
    /\ config = <<Method(IdM, TRUE, Absent, CallerPricing("weight_based"), Absent, Absent)>>
    /\ context = Ctx(1, 2, Some(1), "US", Absent)
    /\ conditions = Absent
    /\ pricing = NoPricing
    /\ customPlugins = EmptyRegistry
    /\ op = "init"
    /\ arg = <<>>
    /\ result = Absent

NextRegistry ==
    \/ \E c \in Callers : CallerRegisters(c)
    \/ \E c \in Callers : CallerPrices(c)
    \/ GetShippingMethodsForDisplay
    \/ GetShippingMethodById(IdM)

SpecRegistry == InitRegistry /\ [][NextRegistry]_vars

\* The conditions with one of their blocks taken out
----------------------------------------------------------------------------
(* Properties of the Condition Evaluator (checked under SpecCond) *)

WithoutDate(conds) == Some([Get(conds) EXCEPT !.date = Absent])
WithoutGeo(conds) == Some([Get(conds) EXCEPT !.geo = Absent])
WithoutOrder(conds) == Some([Get(conds) EXCEPT !.order = Absent])

EvaluatedConditions == op = "evaluateConditions" /\ Has(conditions)

\* The single result of a display call over a one-method configuration
Displayed == op = "getShippingMethodsForDisplay" /\ ~result.threw
Shown(i) == result.value[i]

\* A date window as the specification reads it: after inclusive, before exclusive,
\* on absolute instants
InDateWindow(d, instant) ==
    /\ Has(d.after) => instant >= Get(d.after).wall - Get(d.after).off
    /\ Has(d.before) => instant < Get(d.before).wall - Get(d.before).off

\* C4: with an orderDate in the context, evaluateConditions holds for a date
\* criterion iff (after absent or orderInstant >= afterInstant) and (before absent
\* or orderInstant < beforeInstant), at millisecond granularity; the other blocks
\* of the conditions decide the rest.
C4_DateAfterInclusiveBeforeExclusive ==
    (EvaluatedConditions /\ Has(Get(conditions).date) /\ Has(context.orderDate)) =>
        result = (/\ evaluateConditions(WithoutDate(conditions), context)
                  /\ InDateWindow(Get(Get(conditions).date), Get(context.orderDate)))

\* C4 witness: an order placed at the very instant that is both the `after` and the
\* `before` bound (written at different offsets) is refused: `after` lets it in,
\* `before` keeps it out; and with the `after` bound alone it is accepted.
C4_Witness ==
    /\ EvaluatedConditions
    /\ Has(Get(conditions).date) /\ Has(context.orderDate)
    /\ ~Has(Get(conditions).geo) /\ ~Has(Get(conditions).order)
    /\ LET d == Get(Get(conditions).date) IN
       /\ Has(d.after) /\ Has(d.before)
       /\ Get(d.after).off /= Get(d.before).off
       /\ DateParse(Get(d.after)) = Get(context.orderDate)
       /\ DateParse(Get(d.before)) = Get(context.orderDate)
    /\ result = FALSE
    /\ evaluateConditions(
          Some(Cond(Absent, Absent,
                    Some(DateBlock(Get(Get(conditions).date).after, Absent)))),
          context)

\* Membership of the context country as the specification reads the two lists
GeoAllows(g, country) ==
    /\ (~Has(g.include) \/ Get(g.include) = {} \/ country \in Get(g.include))
    /\ (~Has(g.exclude) \/ Get(g.exclude) = {} \/ country \notin Get(g.exclude))

\* C7: evaluateConditions passes the geo check iff (include is absent or empty or
\* contains the country) and (exclude is absent or empty or does not contain it);
\* a country in both lists fails, and a method whose include list lacks the
\* country is unavailable for every order value.
C7_GeoIncludeAndExclude ==
    /\ (EvaluatedConditions /\ Has(Get(conditions).geo)) =>
          result = (/\ evaluateConditions(WithoutGeo(conditions), context)
                    /\ GeoAllows(Get(Get(conditions).geo), context.country))
    /\ (Displayed /\ Has(conditions) /\ Has(Get(conditions).geo)) =>
          LET g == Get(Get(conditions).geo) IN
          /\ (Has(g.include) /\ Get(g.include) /= {}
              /\ context.country \notin Get(g.include)) => ~Shown(1).available
          /\ (Has(g.include) /\ Has(g.exclude)
              /\ context.country \in Get(g.include) \cap Get(g.exclude))
                => ~Shown(1).available

\* C7 witness: the country is listed in include and in exclude, and the check fails
C7_Witness ==
    /\ EvaluatedConditions
    /\ Has(Get(conditions).geo)
    /\ LET g == Get(Get(conditions).geo) IN
       /\ Has(g.include) /\ Has(g.exclude)
       /\ context.country \in Get(g.include) \cap Get(g.exclude)
    /\ result = FALSE

\* A range as the specification reads it: both bounds inclusive
Within(r, value) ==
    /\ Has(r.min) => Get(r.min) <= value
    /\ Has(r.max) => value <= Get(r.max)

OrderAllows(o, ctx) ==
    /\ Has(o.value) => Within(Get(o.value), ctx.orderValue)
    /\ Has(o.items) => Within(Get(o.items), ctx.itemCount)
    /\ Has(o.weight) => Within(Get(o.weight), IF Has(ctx.weight) THEN Get(ctx.weight) ELSE 0)

\* C8: evaluateConditions passes the order check iff every declared range of value,
\* items and weight has min <= x <= max (both bounds inclusive, an absent context
\* weight counting as 0); an absent conditions block evaluates to true.
C8_OrderRangesInclusive ==
    /\ (EvaluatedConditions /\ Has(Get(conditions).order)) =>
          result = (/\ evaluateConditions(WithoutOrder(conditions), context)
                    /\ OrderAllows(Get(Get(conditions).order), context))
    /\ (op = "evaluateConditions" /\ ~Has(conditions)) => result = TRUE

\* C8 witness: the value sits on its min, the item count on its max, the weight is
\* absent from the context and its range admits 0, and the check passes
C8_Witness ==
    /\ EvaluatedConditions
    /\ Has(Get(conditions).order)
    /\ LET o == Get(Get(conditions).order) IN
       /\ Has(o.value) /\ Has(o.items) /\ Has(o.weight)
       /\ Get(o.value).min = Some(context.orderValue)
       /\ Get(o.items).max = Some(context.itemCount)
       /\ Get(o.weight).min = Some(0)
       /\ ~Has(context.weight)
    /\ result = TRUE

----------------------------------------------------------------------------
(* Properties of the Pricing Calculator (checked under SpecPrice) *)

Priced(type) == op = "calculatePrice" /\ pricing.type = type /\ ~result.threw

\* C9: item-based pricing follows price(n) = 0 for n <= 0, price(1) = firstItemPrice
\* and price(n) = price(n-1) + additionalItemPrice for every n > 1.
C9_ItemBasedRecurrence ==
    Priced("item_based") =>
        LET count == context.itemCount
            first == pricing.firstItemPrice
            additional == pricing.additionalItemPrice
        IN  /\ count <= 0 => result.value = 0
            /\ count = 1 => result.value = first
            /\ count > 1 =>
                  result.value =
                     calculatePrice(customPlugins, pricing,
                                    [context EXCEPT !.itemCount = count - 1]).value
                     + additional

\* C9 witness: three items at a non-zero additional price
C9_Witness ==
    /\ Priced("item_based")
    /\ context.itemCount = 3
    /\ pricing.additionalItemPrice > 0
    /\ pricing.firstItemPrice /= pricing.additionalItemPrice
    /\ result.value = pricing.firstItemPrice + 2 * pricing.additionalItemPrice

Larger(a, b) == IF a >= b THEN a ELSE b
Smaller(a, b) == IF a <= b THEN a ELSE b

\* C10: value-based pricing computes orderValue * percentage / 100, raises it to
\* minAmount if below, and only afterwards lowers it to maxAmount if above: with
\* min <= max the price lies in [minAmount, maxAmount], with one bound only that
\* bound applies, and the max clamp has the last word.
C10_ValueBasedClamp ==
    Priced("value_based") =>
        LET raw == context.orderValue * pricing.percentage
            lo == pricing.minAmount
            hi == pricing.maxAmount
        IN  /\ (~Has(lo) /\ ~Has(hi)) => result.value = raw
            /\ (Has(lo) /\ ~Has(hi)) => result.value = Larger(raw, Get(lo))
            /\ (~Has(lo) /\ Has(hi)) => result.value = Smaller(raw, Get(hi))
            /\ (Has(lo) /\ Has(hi)) =>
                  result.value = Smaller(Larger(raw, Get(lo)), Get(hi))
            /\ (Has(lo) /\ Has(hi) /\ Get(lo) <= Get(hi)) =>
                  Get(lo) <= result.value /\ result.value <= Get(hi)

\* C10 witness: both bounds configured, min < max, and a raw price below min is
\* raised to it
C10_Witness ==
    /\ Priced("value_based")
    /\ Has(pricing.minAmount) /\ Has(pricing.maxAmount)
    /\ Get(pricing.minAmount) < Get(pricing.maxAmount)
    /\ 0 < context.orderValue * pricing.percentage
    /\ context.orderValue * pricing.percentage < Get(pricing.minAmount)
    /\ result.value = Get(pricing.minAmount)


----------------------------------------------------------------------------
(* Properties of the evaluation engine (checked under Spec) *)

\* Conditions or tier criteria as the specification reads them: every declared
\* block holds; a date block holds when the context carries no order date
Holds(conds, ctx) ==
    Has(conds) =>
        /\ Has(Get(conds).geo) => GeoAllows(Get(Get(conds).geo), ctx.country)
        /\ Has(Get(conds).order) => OrderAllows(Get(Get(conds).order), ctx)
        /\ (Has(Get(conds).date) /\ Has(ctx.orderDate)) =>
              InDateWindow(Get(Get(conds).date), Get(ctx.orderDate))

CriteriaHold(tier, ctx) == Holds(Some(tier.criteria), ctx)

IsTiered(method) == method.pricing.type = "tiered"

\* The display result of the method at position i of the configuration
ShownFor(i) ==
    Shown(CHOOSE k \in 1..Len(result.value) : Shown(k).methodId = config[i].id)

Validated == op = "getShippingMethodById" /\ ~result.threw /\ Has(result.value)
ValidatedResult == Get(result.value)

\* The first tier, in declared order, whose criteria hold; 0 if none
FirstTierHolding(rules, ctx) ==
    IF \E k \in 1..Len(rules) : CriteriaHold(rules[k], ctx)
    THEN CHOOSE k \in 1..Len(rules) :
            CriteriaHold(rules[k], ctx) /\ \A j \in 1..(k - 1) : ~CriteriaHold(rules[j], ctx)
    ELSE 0

\* C1: for a tiered method whose base conditions hold, the display reports the tier
\* at the lowest list position whose criteria hold for the context (its tierId and
\* price, available), even when a later tier also matches or is cheaper; when no
\* tier's criteria hold it reports unavailable, "No matching tier", no tierId.
C1_FirstMatchingTier ==
    Displayed =>
        \A i \in 1..Len(config) :
            (IsTiered(config[i]) /\ Holds(config[i].conditions, context)) =>
                LET rules == config[i].pricing.rules
                    first == FirstTierHolding(rules, context)
                    r == ShownFor(i)
                IN  IF first /= 0
                    THEN /\ r.available
                         /\ r.tierId = Some(rules[first].id)
                         /\ r.price = rules[first].price
                    ELSE /\ ~r.available
                         /\ r.message = Some("No matching tier")
                         /\ r.tierId = Absent

\* C2: whenever a tiered method's base conditions do not hold, the display reports
\* it unavailable at price 0 with no tierId, availabilityMode, upgrade hint,
\* progress or nextTier and the message "Conditions not met", whatever its tiers
\* are; and validation reports every one of its tiers unavailable.
C2_BaseConditionsGateTiers ==
    /\ Displayed =>
          \A i \in 1..Len(config) :
              (IsTiered(config[i]) /\ ~Holds(config[i].conditions, context)) =>
                  LET r == ShownFor(i)
                  IN  /\ ~r.available
                      /\ r.price = 0
                      /\ r.tierId = Absent
                      /\ r.availabilityMode = Absent
                      /\ r.upgradeMessage = Absent
                      /\ r.progress = Absent
                      /\ r.nextTier = Absent
                      /\ r.message = Some("Conditions not met")
    /\ op = "getShippingMethodById" =>
          \A i \in 1..Len(config) :
              (IsTiered(config[i]) /\ ~Holds(config[i].conditions, context)) =>
                  \A k \in 1..Len(config[i].pricing.rules) :
                      arg = CompositeId(config[i].id, config[i].pricing.rules[k].id) =>
                          /\ ~result.threw
                          /\ Has(result.value)
                          /\ ~ValidatedResult.available

\* C2 witness: an enabled tiered method fails its base conditions while its cheaper
\* second tier, which declares an upgrade hint, has its criteria met
C2_Witness ==
    /\ Displayed
    /\ Len(config) = 1 /\ IsTiered(config[1]) /\ config[1].enabled
    /\ ~Holds(config[1].conditions, context)
    /\ Len(config[1].pricing.rules) = 2
    /\ CriteriaHold(config[1].pricing.rules[2], context)
    /\ Has(config[1].pricing.rules[2].availability)
    /\ ~Shown(1).available

\* C3: every available display result r is reproduced by validation:
\* getShippingMethodById(config, r.id, context) is present and available with the
\* price, methodId and tierId of r.
C3_ValidationReproducesDisplay ==
    Displayed =>
        \A k \in 1..Len(result.value) :
            Shown(k).available =>
                LET v == getShippingMethodById(customPlugins, config, Shown(k).id, context)
                IN  /\ ~v.threw
                    /\ Has(v.value)
                    /\ Get(v.value).available
                    /\ Get(v.value).price = Shown(k).price
                    /\ Get(v.value).methodId = Shown(k).methodId
                    /\ Get(v.value).tierId = Shown(k).tierId

\* The tier of method i that has the given id
TierOf(i, tierId) ==
    config[i].pricing.rules[CHOOSE k \in 1..Len(config[i].pricing.rules) :
                               config[i].pricing.rules[k].id = tierId]

MethodIndexOf(methodId) == CHOOSE i \in 1..Len(config) : config[i].id = methodId

\* C5: tier criteria are evaluated with the full Condition Evaluator: a tier whose
\* date or geo-country criterion fails for the context is never the tier the
\* display selects and is never reported available by validation (so at the
\* instant that is tier A's `before` and tier B's `after`, B is selected, not A).
C5_TierCriteriaFullyEvaluated ==
    /\ Displayed =>
          \A k \in 1..Len(result.value) :
              Has(Shown(k).tierId) =>
                  CriteriaHold(TierOf(MethodIndexOf(Shown(k).methodId),
                                      Get(Shown(k).tierId)), context)
    /\ (Validated /\ Has(ValidatedResult.tierId) /\ ValidatedResult.available) =>
          CriteriaHold(TierOf(MethodIndexOf(ValidatedResult.methodId),
                              Get(ValidatedResult.tierId)), context)

\* C6: without an orderDate every date criterion is satisfied: evaluateConditions
\* returns what it returns for the same conditions without their date block, for
\* any after/before bounds; and a tiered method (base conditions met) whose first
\* tier has only date criteria selects that first tier.
C6_NoOrderDateSatisfiesDateCriteria ==
    /\ (EvaluatedConditions /\ Has(Get(conditions).date) /\ ~Has(context.orderDate)) =>
          result = evaluateConditions(WithoutDate(conditions), context)
    /\ (Displayed /\ ~Has(context.orderDate)) =>
          \A i \in 1..Len(config) :
              (/\ IsTiered(config[i])
               /\ Holds(config[i].conditions, context)
               /\ Has(config[i].pricing.rules[1].criteria.date)
               /\ ~Has(config[i].pricing.rules[1].criteria.order)
               /\ ~Has(config[i].pricing.rules[1].criteria.geo)) =>
                  /\ ShownFor(i).available
                  /\ ShownFor(i).tierId = Some(config[i].pricing.rules[1].id)
                  /\ ShownFor(i).price = config[i].pricing.rules[1].price

\* C6 witness: the conditions carry a date window no instant can satisfy (after
\* later than before), the context carries no orderDate, and they evaluate to true
C6_Witness ==
    /\ EvaluatedConditions
    /\ Has(Get(conditions).date) /\ ~Has(context.orderDate)
    /\ LET d == Get(Get(conditions).date) IN
       /\ Has(d.after) /\ Has(d.before)
       /\ DateParse(Get(d.after)) > DateParse(Get(d.before))
    /\ result = TRUE

\* A method with custom pricing whose plugin name is not in the registry
PluginMissing(method) ==
    method.pricing.type = "custom" /\ method.pricing.plugin \notin DOMAIN customPlugins

PluginNotFound == result.threw /\ result.error = "Custom pricing plugin not found"

ValidationOfMethod(i) == op = "getShippingMethodById" /\ arg = config[i].id

\* C11 (amended): an unregistered plugin is detected only when a price is computed.
\* getShippingMethodsForDisplay raises "plugin not found" exactly when some method
\* with custom pricing names an unregistered plugin and its base conditions hold
\* (enabled or not); getShippingMethodById for such a method raises it exactly when
\* the base conditions hold and the method is enabled; otherwise the call returns
\* normally with the method unavailable; registering a plugin raises nothing.
C11_PluginNotFoundAtPricing ==
    /\ op = "getShippingMethodsForDisplay" =>
          /\ result.threw <=>
                \E i \in 1..Len(config) :
                    PluginMissing(config[i]) /\ Holds(config[i].conditions, context)
          /\ result.threw => PluginNotFound
          /\ ~result.threw =>
                \A i \in 1..Len(config) :
                    PluginMissing(config[i]) => ~ShownFor(i).available
    /\ \A i \in 1..Len(config) :
          (ValidationOfMethod(i) /\ PluginMissing(config[i])) =>
              /\ result.threw <=>
                    (Holds(config[i].conditions, context) /\ config[i].enabled)
              /\ result.threw => PluginNotFound
              /\ ~result.threw => (Has(result.value) /\ ~ValidatedResult.available)
    /\ op = "registerPricingPlugin" => result = Absent

\* C11 witness: the display of two methods fails because the second, whose
\* conditions hold, names a plugin that was never registered
C11_Witness ==
    /\ op = "getShippingMethodsForDisplay"
    /\ Len(config) = 2
    /\ PluginMissing(config[2]) /\ Holds(config[2].conditions, context)
    /\ ~PluginMissing(config[1])
    /\ PluginNotFound

\* C11 as stated: getShippingMethodById for the method raises "plugin not found"
\* exactly when the plugin is unregistered and the base conditions hold, as the
\* display does.
C11_AsStated ==
    /\ op = "getShippingMethodsForDisplay" =>
          (result.threw <=>
              \E i \in 1..Len(config) :
                  PluginMissing(config[i]) /\ Holds(config[i].conditions, context))
    /\ \A i \in 1..Len(config) :
          (ValidationOfMethod(i) /\ PluginMissing(config[i])) =>
              (result.threw <=> Holds(config[i].conditions, context))

\* The text of an identifier before its first ':' (all of it when it has none)
MethodPart(id) ==
    IF \E k \in 1..Len(id) : id[k] = Colon
    THEN SubSeq(id, 1, (CHOOSE k \in 1..Len(id) :
                           id[k] = Colon /\ \A j \in 1..(k - 1) : id[j] /= Colon) - 1)
    ELSE id

Configured(methodId) == \E i \in 1..Len(config) : config[i].id = methodId

HasColon(text) == \E k \in 1..Len(text) : text[k] = Colon

\* The tier ids that are not tiers of the method, as suffixes a client may supply
UnknownSuffixes(method) ==
    {s \in {IdS, IdT, IdX} :
        \A k \in 1..Len(method.pricing.rules) : method.pricing.rules[k].id /= s}

Suffixes == {IdX, <<>>, CompositeId(IdX, IdS)}

\* C13: for a non-tiered method m, any suffix s and any context,
\* getShippingMethodById(config, m + ':' + s, context) gives exactly what
\* getShippingMethodById(config, m, context) gives, with id = m and no tierId.
C13_SuffixIgnoredForNonTiered ==
    op = "getShippingMethodById" =>
        \A i \in 1..Len(config), s \in Suffixes :
            (~IsTiered(config[i]) /\ arg = CompositeId(config[i].id, s)) =>
                /\ result = getShippingMethodById(customPlugins, config, config[i].id, context)
                /\ ~result.threw =>
                      /\ Has(result.value)
                      /\ ValidatedResult.id = config[i].id
                      /\ ValidatedResult.methodId = config[i].id
                      /\ ValidatedResult.tierId = Absent

\* C13 witness: an enabled non-tiered method whose conditions hold is asked for
\* with a suffix and is answered available, at its price, under its own id
C13_Witness ==
    /\ Validated
    /\ ~IsTiered(config[1]) /\ config[1].enabled
    /\ arg = CompositeId(config[1].id, IdX)
    /\ ValidatedResult.available
    /\ ValidatedResult.price > 0
    /\ ValidatedResult.id = config[1].id

\* The method a display result belongs to
MethodOfShown(k) == config[MethodIndexOf(Shown(k).methodId)]

SomeTierHolds(method, ctx) ==
    \E k \in 1..Len(method.pricing.rules) : CriteriaHold(method.pricing.rules[k], ctx)

\* C14: every display result that has a tierId has id = methodId + ':' + tierId,
\* every result without a tierId has id = methodId, and a tierId is present exactly
\* when the method is tiered, its base conditions hold and some tier matched.
C14_CompositeIdentifier ==
    Displayed =>
        \A k \in 1..Len(result.value) :
            /\ Has(Shown(k).tierId) =>
                  Shown(k).id = Shown(k).methodId \o <<":">> \o Get(Shown(k).tierId)
            /\ ~Has(Shown(k).tierId) => Shown(k).id = Shown(k).methodId
            /\ Has(Shown(k).tierId) <=>
                  /\ IsTiered(MethodOfShown(k))
                  /\ Holds(MethodOfShown(k).conditions, context)
                  /\ SomeTierHolds(MethodOfShown(k), context)

----------------------------------------------------------------------------
(* Properties of upgrade and unlock hints (checked under SpecDisplay) *)

\* The context's value for a trigger kind; an absent weight counts as 0
ContextValue(kind, ctx) ==
    CASE kind = "order.value.min" -> ctx.orderValue
      [] kind = "order.items.min" -> ctx.itemCount
      [] kind = "order.weight.min" -> IF Has(ctx.weight) THEN Get(ctx.weight) ELSE 0

\* The minimum an order block declares for a trigger kind, if it declares one
Threshold(kind, order) ==
    IF ~Has(order) THEN Absent
    ELSE LET range == CASE kind = "order.value.min" -> Get(order).value
                        [] kind = "order.items.min" -> Get(order).items
                        [] kind = "order.weight.min" -> Get(order).weight
         IN  IF Has(range) THEN Get(range).min ELSE Absent

\* The context is strictly below the declared minimum of the first listed trigger
BelowThreshold(availability, order, ctx) ==
    /\ Has(availability)
    /\ Get(availability).when /= <<>>
    /\ Has(Threshold(Get(availability).when[1], order))
    /\ ContextValue(Get(availability).when[1], ctx)
          < Get(Threshold(Get(availability).when[1], order))

OrderOfConditions(conds) == IF Has(conds) THEN Get(conds).order ELSE Absent

TextOf(str) == IF Has(str) THEN Some(Join(Get(str))) ELSE Absent

\* The result carries a message other than the fixed one of its kind: the matched
\* tier's own upgradeMessage, or "Conditions not met"
InterpolatedMessage(k) ==
    IF IsTiered(MethodOfShown(k))
    THEN /\ Has(Shown(k).tierId)
         /\ Has(Shown(k).upgradeMessage)
         /\ Shown(k).upgradeMessage
               /= TextOf(TierOf(MethodIndexOf(Shown(k).methodId),
                                Get(Shown(k).tierId)).upgradeMessage)
    ELSE Has(Shown(k).message) /\ Shown(k).message /= Some("Conditions not met")

HintEmitted(k) ==
    \/ Shown(k).availabilityMode \in {Some("show_hint"), Some("show_disabled")}
    \/ Has(Shown(k).progress)
    \/ Has(Shown(k).nextTier)
    \/ InterpolatedMessage(k)

\* C15: a display result carries availabilityMode show_hint or show_disabled, a
\* progress block, a nextTier or an interpolated upgrade/unlock message only if the
\* context's value for the first listed trigger is strictly below the target's
\* minimum for it (the tier hinted at, or the method itself); at or above the
\* threshold none of these fields is emitted.
C15_HintOnlyWhileRemaining ==
    Displayed =>
        \A k \in 1..Len(result.value) :
            HintEmitted(k) =>
                IF IsTiered(MethodOfShown(k))
                THEN \E j \in 1..Len(MethodOfShown(k).pricing.rules) :
                        LET tier == MethodOfShown(k).pricing.rules[j]
                        IN  /\ BelowThreshold(tier.availability, tier.criteria.order, context)
                            /\ Has(Shown(k).nextTier) => Get(Shown(k).nextTier).id = tier.id
                ELSE BelowThreshold(MethodOfShown(k).availability,
                                    OrderOfConditions(MethodOfShown(k).conditions), context)

\* C15 witness: the cheaper second tier is not reached (its item minimum is unmet)
\* and lists order.value.min first, a minimum the order value has reached: the
\* first tier is reported without any hint field
C15_Witness ==
    /\ Displayed
    /\ IsTiered(config[1]) /\ Len(config[1].pricing.rules) = 2
    /\ LET tier == config[1].pricing.rules[2] IN
       /\ tier.price < config[1].pricing.rules[1].price
       /\ ~CriteriaHold(tier, context)
       /\ Has(tier.availability)
       /\ Get(tier.availability).when /= <<>>
       /\ Get(tier.availability).when[1] = "order.value.min"
       /\ Has(Get(tier.availability).message)
       /\ Has(Threshold("order.value.min", tier.criteria.order))
       /\ context.orderValue >= Get(Threshold("order.value.min", tier.criteria.order))
    /\ Shown(1).tierId = Some(config[1].pricing.rules[1].id)
    /\ ~HintEmitted(1)

\* The tier a tiered result hints at, or the method itself: its availability block
\* and the order block its thresholds are read from
TargetAvailability(k) ==
    IF IsTiered(MethodOfShown(k))
    THEN TierOf(MethodIndexOf(Shown(k).methodId), Get(Shown(k).nextTier).id).availability
    ELSE MethodOfShown(k).availability

TargetOrder(k) ==
    IF IsTiered(MethodOfShown(k))
    THEN TierOf(MethodIndexOf(Shown(k).methodId), Get(Shown(k).nextTier).id).criteria.order
    ELSE OrderOfConditions(MethodOfShown(k).conditions)

\* percentage = 100 * current / required, the percentage held as a fraction
IsPercentage(fraction, current, required) ==
    IF required = 0 THEN fraction[1] = 0
    ELSE fraction[1] * required = 100 * current * fraction[2]

\* C16: whenever a progress block is emitted, required is the minimum threshold of
\* the first listed trigger kind in the target's own criteria (the next tier's, or
\* the method's conditions), remaining = required - contextValue (absent weight = 0),
\* current = required - remaining, current + remaining = required and
\* percentage = 100 * current / required (0 when required is 0); order value 75
\* against a free tier from 100 gives remaining 25 and percentage 75.
C16_ProgressArithmetic ==
    Displayed =>
        \A k \in 1..Len(result.value) :
            Has(Shown(k).progress) =>
                LET p == Get(Shown(k).progress)
                    kind == Get(TargetAvailability(k)).when[1]
                IN  /\ IsTiered(MethodOfShown(k)) => Has(Shown(k).nextTier)
                    /\ Has(Threshold(kind, TargetOrder(k)))
                    /\ p.required = Get(Threshold(kind, TargetOrder(k)))
                    /\ p.remaining = p.required - ContextValue(kind, context)
                    /\ p.current = p.required - p.remaining
                    /\ p.current + p.remaining = p.required
                    /\ IsPercentage(p.percentage, p.current, p.required)
                    /\ (context.orderValue = 75 /\ p.required = 100) =>
                          (p.remaining = 25 /\ p.percentage[1] = 75 * p.percentage[2])

\* C16 witness: order value 75 under the paid tier, the free tier starting at 100:
\* the paid tier is reported with remaining 25, and the message names 25.00
C16_Witness ==
    /\ Displayed
    /\ context.orderValue = 75
    /\ Shown(1).tierId = Some(IdS)
    /\ Has(Shown(1).progress)
    /\ Get(Shown(1).progress).required = 100
    /\ Get(Shown(1).progress).remaining = 25
    /\ Get(Shown(1).progress).current = 75
    /\ Shown(1).upgradeMessage = Some("Add $25.00 more")

\* The tier an available result names as its nextTier
HintedTier(k) == TierOf(MethodIndexOf(Shown(k).methodId), Get(Shown(k).nextTier).id)

\* C17: every available display result with an availabilityMode (or any nextTier)
\* names a nextTier whose price is strictly lower than the result's own price and
\* whose criteria the context does not satisfy: never a tier of equal or higher
\* price, the current tier, or a tier whose criteria already hold.
C17_HintTowardBetterUnreachedTier ==
    Displayed =>
        \A k \in 1..Len(result.value) :
            (Shown(k).available
                /\ (Has(Shown(k).availabilityMode) \/ Has(Shown(k).nextTier))) =>
                /\ Has(Shown(k).nextTier)
                /\ Has(Shown(k).tierId)
                /\ Get(Shown(k).nextTier).id /= Get(Shown(k).tierId)
                /\ Get(Shown(k).nextTier).price = HintedTier(k).price
                /\ Get(Shown(k).nextTier).price < Shown(k).price
                /\ ~CriteriaHold(HintedTier(k), context)

\* C17 witness: the paid tier is reported with a hint toward the free tier, which
\* the order does not reach yet
C17_Witness ==
    /\ Displayed
    /\ Shown(1).available
    /\ Shown(1).availabilityMode = Some("show_hint")
    /\ Has(Shown(1).nextTier)
    /\ Get(Shown(1).nextTier).price = 0
    /\ Shown(1).price = MaxPrice

\* C18: getShippingMethodsForDisplay never returns a result whose availabilityMode
\* is "hide"; a non-tiered method whose base conditions fail and which declares no
\* availability block does not appear in the returned list at all.
C18_HiddenMethodsSuppressed ==
    Displayed =>
        /\ \A k \in 1..Len(result.value) : Shown(k).availabilityMode /= Some("hide")
        /\ \A i \in 1..Len(config) :
              (/\ ~IsTiered(config[i])
               /\ ~Holds(config[i].conditions, context)
               /\ ~Has(config[i].availability)) =>
                  \A k \in 1..Len(result.value) : Shown(k).methodId /= config[i].id

GeoFails(conds, ctx) ==
    /\ Has(conds)
    /\ Has(Get(conds).geo)
    /\ ~GeoAllows(Get(Get(conds).geo), ctx.country)

\* C19: a non-tiered method whose geo-country condition fails for the context is
\* classified as hidden: it is never reported with availabilityMode show_hint or
\* show_disabled and never carries a progress block or an unlock message, whatever
\* the order value and the method's availability block are.
C19_GeoFailureHidesWithoutHint ==
    Displayed =>
        \A k \in 1..Len(result.value) :
            (~IsTiered(MethodOfShown(k)) /\ GeoFails(MethodOfShown(k).conditions, context)) =>
                /\ ~Shown(k).available
                /\ Shown(k).availabilityMode = Some("hide")
                /\ ~Has(Shown(k).progress)
                /\ ~InterpolatedMessage(k)

----------------------------------------------------------------------------
(* Determinism across the calls of a run (checked under Spec) *)

\* The config and the context of a run never change and every run starts with an
\* empty registry; what a call returns at another point of the run is what the
\* operation gives for the registry of that point.

\* Every registry: some of the plugin names, each bound to a plugin
Registries == UNION {[names -> PluginFns] : names \in SUBSET PluginNames}

\* Two registries bind the given names alike
AgreeOn(names, r1, r2) ==
    \A n \in names :
        /\ n \in DOMAIN r1 <=> n \in DOMAIN r2
        /\ n \in DOMAIN r1 => r1[n] = r2[n]

----------------------------------------------------------------------------
(* Evaluation over out-of-range contexts *)

\* The built-in formulas, which price without a plugin
BuiltinPricingSet == {Flat(MaxPrice), ItemBased(2, 1), ValueBased(100, Some(75), Some(150))}

\* Conditions on each metric of the order
MetricCondSet ==
    MethodCondSet
    \cup {Some(Cond(Absent, o, Absent)) :
             o \in {ValueMax(0), ItemsMin(1), ItemsMax(0), WeightMin(1), WeightMax(0)}}

\* Contexts within and outside the expected ranges: a negative order value, a
\* negative or zero item count, an absent or negative weight
InitRangeInputs ==
    \/ \E pr \in BuiltinPricingSet, cd \in MetricCondSet, av \in MethodHintSet,
          v \in (0 - 1)..MaxValue, k \in (0 - 1)..1,
          w \in {Absent, Some(0 - 1), Some(1)} :
          /\ config = <<Method(IdM, TRUE, cd, pr, av, Absent)>>
          /\ context = Ctx(v, k, w, "US", Absent)
    \/ \E c1 \in TierMetricCriteriaSet \cup {Criteria(ValueMin(1), Absent, Absent)},
          c2 \in TierMetricCriteriaSet \cup {Criteria(ValueMin(1), Absent, Absent)},
          cd \in BaseCondSet,
          v \in (0 - 1)..MaxValue, k \in (0 - 1)..1,
          w \in {Absent, Some(0 - 1), Some(1)} :
          \E a2 \in TierHintsFor(c2) :
             /\ config = <<Method(IdM, TRUE, cd,
                                  Tiered(<<Tier(IdS, c1, MaxPrice, Absent),
                                           Tier(IdT, c2, 0, a2)>>),
                                  Absent, Absent)>>
             /\ context = Ctx(v, k, w, "US", Absent)

InitRange ==
    /\ InitRangeInputs
    /\ conditions = config[1].conditions
    /\ pricing = NoPricing
    /\ customPlugins = EmptyRegistry
    /\ op = "init"
    /\ arg = <<>>
    /\ result = Absent
    /\ pending = NoCallers
    /\ history = <<>>

NextRange ==
    \/ EvaluateConditions
    \/ GetShippingMethodsForDisplay

SpecRange == InitRange /\ [][NextRange]_vars

----------------------------------------------------------------------------
(* The order of the display list *)

IdO == <<"o">>

\* Three flat methods, with and without display priorities, served or not
InitSortInputs ==
    \E p1 \in {1, MaxPrice}, p2 \in {0, 2}, p3 \in {1, 2},
       r1 \in Opt({1, 2}), r2 \in Opt({1, 2}), r3 \in Opt({1, 2}),
       c1 \in {Absent, Some(Cond(IncludeOnly("US"), Absent, Absent))},
       c2 \in {Absent, Some(Cond(IncludeOnly("US"), Absent, Absent))},
       c \in {"US", "CA"} :
       /\ config = <<Method(IdM, TRUE, c1, Flat(p1), Absent, r1),
                     Method(IdN, TRUE, c2, Flat(p2), Absent, r2),
                     Method(IdO, TRUE, Absent, Flat(p3), Absent, r3)>>
       /\ context = Ctx(1, 1, Absent, c, Absent)

InitSort ==
    /\ InitSortInputs
    /\ conditions = config[1].conditions
    /\ pricing = NoPricing
    /\ customPlugins = EmptyRegistry
    /\ op = "init"
    /\ arg = <<>>
    /\ result = Absent
    /\ pending = NoCallers
    /\ history = <<>>

NextSort == GetShippingMethodsForDisplay

SpecSort == InitSort /\ [][NextSort]_vars

----------------------------------------------------------------------------
(* The selection of the upgrade target on its own *)

\* findNextTierWithAvailability(rules, currentRule, context); current = 0 passes no
\* current tier
FindNextTierWithAvailability(current) ==
    /\ op' = "findNextTierWithAvailability"
    /\ arg' = <<current>>
    /\ result' = findNextTierWithAvailability(config[1].pricing.rules, current, context)
    /\ UNCHANGED <<config, context, conditions, pricing, customPlugins, pending, history>>

\* Criteria of the tiers below the first: none, an order-value floor, and a floor
\* together with a country
UpgradeCriteriaSet ==
    {Criteria(Absent, Absent, Absent),
     Criteria(ValueMin(MaxValue), Absent, Absent),
     Criteria(ValueMin(1), IncludeOnly("CA"), Absent)}

\* Three tiers of one method, each with or without an availability block
InitNextTierInputs ==
    \E c1 \in {Criteria(Absent, Absent, Absent), Criteria(ValueMin(1), Absent, Absent)},
       c2 \in UpgradeCriteriaSet, c3 \in UpgradeCriteriaSet,
       p1 \in {1, MaxPrice}, p2 \in {0, 1, MaxPrice}, p3 \in {0, 1, MaxPrice},
       a1 \in {Absent, ValueHint}, a2 \in {Absent, ValueHint}, a3 \in {Absent, ValueHint},
       v \in 0..MaxValue, c \in {"US", "CA"} :
       /\ config = <<Method(IdM, TRUE, Absent,
                            Tiered(<<Tier(IdS, c1, p1, a1), Tier(IdT, c2, p2, a2),
                                     Tier(IdX, c3, p3, a3)>>),
                            Absent, Absent)>>
       /\ context = Ctx(v, 1, Absent, c, Absent)

InitNextTier ==
    /\ InitNextTierInputs
    /\ conditions = config[1].conditions
    /\ pricing = NoPricing
    /\ customPlugins = EmptyRegistry
    /\ op = "init"
    /\ arg = <<>>
    /\ result = Absent
    /\ pending = NoCallers
    /\ history = <<>>

NextNextTier ==
    \E current \in 0..Len(config[1].pricing.rules) : FindNextTierWithAvailability(current)

SpecNextTier == InitNextTier /\ [][NextNextTier]_vars

----------------------------------------------------------------------------
(* Properties of the plugin registry (checked under SpecRegistry) *)

\* The plugins supplied for name n by the registerPricingPlugin calls completed
\* before the i-th call of the run
SuppliedBefore(n, i) ==
    {Get(history[j].call.plugin) :
        j \in {k \in 1..(i - 1) : /\ history[k].call.kind = "register"
                                  /\ history[k].call.name = n}}

\* What pricing the callers' formula with plugin f returns
PriceWith(f, n) == Returned(ApplyPlugin(f, CallerPricing(n).config, context))

NotRegistered(n) == Thrown("Custom pricing plugin not found", n)

\* C21: under every interleaving of the registerPricingPlugin calls and custom-price
\* lookups of concurrent callers, a lookup of name n fails with plugin-not-found when
\* no registration of n has completed, and otherwise returns the price of a plugin
\* that some completed registerPricingPlugin(n, f) supplied (never one supplied under
\* another name); no registration is lost, and at every point, so also after all
\* registrations, each name resolves to one of the plugins registered for it.
C21_RegistrySafeUnderInterleaving ==
    /\ \A i \in 1..Len(history) :
          history[i].call.kind = "price" =>
              LET n == history[i].call.name
                  supplied == SuppliedBefore(n, i)
              IN  IF supplied = {}
                  THEN history[i].outcome = NotRegistered(n)
                  ELSE \E f \in supplied : history[i].outcome = PriceWith(f, n)
    /\ \A n \in PluginNames :
          LET supplied == SuppliedBefore(n, Len(history) + 1)
          IN  IF supplied = {}
              THEN n \notin DOMAIN customPlugins
              ELSE n \in DOMAIN customPlugins /\ customPlugins[n] \in supplied

\* C21 witness: the two callers register different plugins under two names, one
\* after the other, and the first caller's lookup of its name then returns a price
C21_Witness ==
    /\ Len(history) = 3
    /\ pending = <<<<>>, <<>>>>
    /\ history[1].caller = 1 /\ history[1].call.kind = "register"
    /\ history[2].caller = 2 /\ history[2].call.kind = "register"
    /\ history[1].call.name /= history[2].call.name
    /\ history[1].call.plugin /= history[2].call.plugin
    /\ history[3].caller = 1 /\ history[3].call.kind = "price"
    /\ history[3].call.name = history[1].call.name
    /\ history[3].outcome = PriceWith(Get(history[1].call.plugin), history[1].call.name)
    /\ PriceWith("weightBasedPlugin", "weight_based") /= PriceWith("perItemPlugin", "weight_based")

----------------------------------------------------------------------------
(* Out-of-range inputs (checked under SpecRange) *)

C22_WitnessNoMatch ==
    /\ Displayed
    /\ context.orderValue < 0
    /\ context.itemCount < 0
    /\ IsTiered(config[1])
    /\ Holds(config[1].conditions, context)
    /\ ~Shown(1).available
    /\ Shown(1).message = Some("No matching tier")

----------------------------------------------------------------------------
(* Validation of tier identifiers (checked under Spec) *)

\* C23: validating the identifier m:t of an existing tier t of tiered method m
\* returns a present result with tierId = t and the price of tier t, available
\* exactly when m is enabled, the base conditions of m hold and the criteria of
\* tier t hold for the context; a tier whose criteria are not met gives a present
\* result that is not available.
C23_TierValidationAvailability ==
    op = "getShippingMethodById" =>
        \A i \in 1..Len(config) :
            IsTiered(config[i]) =>
                \A t \in 1..Len(config[i].pricing.rules) :
                    arg = CompositeId(config[i].id, config[i].pricing.rules[t].id) =>
                        /\ ~result.threw /\ Has(result.value)
                        /\ ValidatedResult.tierId = Some(config[i].pricing.rules[t].id)
                        /\ ValidatedResult.price = config[i].pricing.rules[t].price
                        /\ ValidatedResult.available =
                              (/\ config[i].enabled
                               /\ Holds(config[i].conditions, context)
                               /\ CriteriaHold(config[i].pricing.rules[t], context))

----------------------------------------------------------------------------
(* The order of the display list (checked under SpecSort) *)

\* The display priority of the k-th result's method, 999 when it declares none
PriorityShown(k) ==
    IF Has(MethodOfShown(k).priority) THEN Get(MethodOfShown(k).priority) ELSE 999

\* C24: the list returned by getShippingMethodsForDisplay is ordered by display
\* priority ascending, a method without a priority counting as 999, and among
\* results of equal priority by price ascending.
C24_SortedByPriorityThenPrice ==
    Displayed =>
        /\ Len(result.value) = Len(config)
        /\ \A a \in 1..Len(result.value) :
              \A b \in (a + 1)..Len(result.value) :
                 /\ PriorityShown(a) <= PriorityShown(b)
                 /\ PriorityShown(a) = PriorityShown(b) => Shown(a).price <= Shown(b).price

\* C24 witness: the first configured method declares no priority and is listed
\* last, and two methods of equal priority are listed by price, against the
\* configured order
C24_Witness ==
    /\ Displayed
    /\ Len(result.value) = 3
    /\ ~Has(config[1].priority)
    /\ Shown(3).methodId = config[1].id
    /\ Shown(1).methodId = config[3].id
    /\ Shown(2).methodId = config[2].id
    /\ PriorityShown(1) = PriorityShown(2)
    /\ Shown(1).price < Shown(2).price

----------------------------------------------------------------------------
(* Validation against the display (checked under Spec) *)

\* What the display offers for the configuration and context of the run
Offered == getShippingMethodsForDisplay(customPlugins, config, context)

\* C25: whenever getShippingMethodById returns a result with available = true, the
\* display of the same configuration and context contains an available result with
\* the same methodId, tierId and price; an available validation result for a tiered
\* method carries the price of the first tier whose criteria hold.
C25_ValidationWithinDisplay ==
    (Validated /\ ValidatedResult.available) =>
        /\ ~Offered.threw
        /\ \E k \in 1..Len(Offered.value) :
              /\ Offered.value[k].available
              /\ Offered.value[k].methodId = ValidatedResult.methodId
              /\ Offered.value[k].tierId = ValidatedResult.tierId
              /\ Offered.value[k].price = ValidatedResult.price
        /\ LET method == config[MethodIndexOf(ValidatedResult.methodId)]
           IN  IsTiered(method) =>
                  /\ FirstTierHolding(method.pricing.rules, context) /= 0
                  /\ ValidatedResult.price =
                        method.pricing.rules[FirstTierHolding(method.pricing.rules,
                                                              context)].price

----------------------------------------------------------------------------
(* The upgrade target (checked under SpecNextTier) *)

\* Tier i qualifies as upgrade target: it declares an availability block, its
\* criteria do not hold for the context, and it is cheaper than the current tier
\* when one is given
Qualifies(rules, i, current, ctx) ==
    /\ Has(rules[i].availability)
    /\ ~CriteriaHold(rules[i], ctx)
    /\ current /= 0 => rules[i].price < rules[current].price

\* C26: the upgrade target is the first tier in declared order that declares an
\* availability block, does not satisfy its own criteria for the context and, when a
\* current tier is given, has a price strictly lower than the current tier's; no
\* other tier is chosen, none when no tier qualifies, and without a current tier
\* the price is not looked at.
C26_NextTierSelection ==
    op = "findNextTierWithAvailability" =>
        LET rules == config[1].pricing.rules
            current == arg[1]
        IN  IF \E i \in 1..Len(rules) : Qualifies(rules, i, current, context)
            THEN /\ result /= 0
                 /\ Qualifies(rules, result, current, context)
                 /\ \A j \in 1..(result - 1) : ~Qualifies(rules, j, current, context)
            ELSE result = 0

----------------------------------------------------------------------------
(* Disabled methods (checked under Spec) *)

\* C27: a method whose enabled flag is false is never reported with available =
\* true, neither in a result of getShippingMethodsForDisplay nor by
\* getShippingMethodById for its id or one of its tier ids.
C27_DisabledNeverAvailable ==
    /\ Displayed =>
          \A k \in 1..Len(result.value) :
              ~MethodOfShown(k).enabled => ~Shown(k).available
    /\ Validated =>
          (~config[MethodIndexOf(ValidatedResult.methodId)].enabled =>
              ~ValidatedResult.available)

----------------------------------------------------------------------------
(* The registry as a map (checked under SpecRegistry) *)

\* The plugin of the most recent registerPricingPlugin(n, f) completed before the
\* i-th call of the run, Absent when there is none
LastRegistered(n, i) ==
    LET calls == {k \in 1..(i - 1) : /\ history[k].call.kind = "register"
                                     /\ history[k].call.name = n}
    IN  IF calls = {} THEN Absent
        ELSE history[CHOOSE k \in calls : \A j \in calls : j <= k].call.plugin

\* C28: at every point of a run the registry binds each name to the plugin of the
\* most recent registerPricingPlugin call for that name and binds no other name;
\* custom pricing for name n returns the value of that plugin, or fails with
\* plugin-not-found when no such call has happened yet; registrations under other
\* names, display calls and validation calls change no binding.
C28_LastWriteWins ==
    /\ DOMAIN customPlugins \subseteq PluginNames
    /\ \A n \in PluginNames :
          LET last == LastRegistered(n, Len(history) + 1)
          IN  IF ~Has(last) THEN n \notin DOMAIN customPlugins
              ELSE n \in DOMAIN customPlugins /\ customPlugins[n] = Get(last)
    /\ \A i \in 1..Len(history) :
          history[i].call.kind = "price" =>
              LET n == history[i].call.name
                  last == LastRegistered(n, i)
              IN  history[i].outcome = IF ~Has(last) THEN NotRegistered(n)
                                       ELSE PriceWith(Get(last), n)
    /\ op \in {"getShippingMethodsForDisplay", "getShippingMethodById"} =>
          LET n == config[1].pricing.plugin
              last == LastRegistered(n, Len(history) + 1)
          IN  IF ~Has(last) THEN result = NotRegistered(n)
              ELSE /\ ~result.threw
                   /\ op = "getShippingMethodsForDisplay" =>
                         Shown(1).price = PriceWith(Get(last), n).value
                   /\ op = "getShippingMethodById" =>
                         ValidatedResult.price = PriceWith(Get(last), n).value

\* C28 witness: a name is registered twice with different plugins, another name in
\* between, and the method is then displayed at the price of the second plugin
C28_Witness ==
    /\ Len(history) = 3
    /\ history[1].call.kind = "register" /\ history[1].call.name = "weight_based"
    /\ history[2].call.kind = "register" /\ history[2].call.name = "vn_weight_based"
    /\ history[3].call.kind = "register" /\ history[3].call.name = "weight_based"
    /\ history[3].call.plugin /= history[1].call.plugin
    /\ history[2].call.plugin = history[1].call.plugin
    /\ Displayed
    /\ Shown(1).price = PriceWith(Get(history[3].call.plugin), "weight_based").value
    /\ Shown(1).price /= PriceWith(Get(history[1].call.plugin), "weight_based").value

----------------------------------------------------------------------------
(* The inverted clamp (checked under SpecPrice) *)

\* C29: when minAmount and maxAmount are both configured and minAmount > maxAmount,
\* value-based pricing returns maxAmount for every order value and percentage: the
\* min clamp is applied first and the max clamp overrides it.
C29_InvertedClampGivesMax ==
    (/\ Priced("value_based")
     /\ Has(pricing.minAmount) /\ Has(pricing.maxAmount)
     /\ Get(pricing.minAmount) > Get(pricing.maxAmount)) =>
        result.value = Get(pricing.maxAmount)

\* C29 witness: min above max, and a raw price between the two, which the min clamp
\* raises and the max clamp brings down to maxAmount
C29_Witness ==
    /\ Priced("value_based")
    /\ Has(pricing.minAmount) /\ Has(pricing.maxAmount)
    /\ Get(pricing.maxAmount) < context.orderValue * pricing.percentage
    /\ context.orderValue * pricing.percentage < Get(pricing.minAmount)
    /\ result.value = Get(pricing.maxAmount)

\* C29, a raw price below both bounds is returned as maxAmount
C29_WitnessBelow ==
    /\ Priced("value_based")
    /\ Has(pricing.minAmount) /\ Has(pricing.maxAmount)
    /\ context.orderValue * pricing.percentage < Get(pricing.maxAmount)
    /\ Get(pricing.maxAmount) < Get(pricing.minAmount)
    /\ result.value = Get(pricing.maxAmount)

----------------------------------------------------------------------------
(* The identifier of validation results (checked under Spec) *)

\* C30: for every identifier passed to getShippingMethodById, those with more than
\* one ':' or with an empty suffix included, a returned result names a configured
\* method; with a tierId, the tierId is the id of one of the method's tiers and the
\* result's id is methodId + ":" + tierId; without a tierId its id is the methodId.
C30_ValidatedIdIsComposite ==
    Validated =>
        /\ Configured(ValidatedResult.methodId)
        /\ Has(ValidatedResult.tierId) =>
              LET method == config[MethodIndexOf(ValidatedResult.methodId)]
              IN  /\ IsTiered(method)
                  /\ \E t \in 1..Len(method.pricing.rules) :
                        method.pricing.rules[t].id = Get(ValidatedResult.tierId)
                  /\ ValidatedResult.id =
                        CompositeId(ValidatedResult.methodId, Get(ValidatedResult.tierId))
        /\ ~Has(ValidatedResult.tierId) => ValidatedResult.id = ValidatedResult.methodId

=============================================================================
